---- MODULE Spec2Model ----
(***************************************************************************)
(* A model of the crawl core of TalkDocs2 (src/backend/crawler.py) and of  *)
(* the document index of its vector store (src/backend/vector_store.py).   *)
(*                                                                         *)
(* One crawl run is the scheduler coroutine (crawl_domain_with_duplicate_  *)
(* check, or the sequential crawl_domain), the process_url tasks of the    *)
(* current batch, the parse threads they start, and the persistence        *)
(* workers.  Coroutines run on one event loop: a step of a task or of a    *)
(* worker is the code between two suspension points and is taken only      *)
(* while the scheduler itself is suspended.  The two halves of             *)
(* _is_duplicate_content run on pool threads and interleave freely.        *)
(***************************************************************************)
EXTENDS Integers, Sequences, FiniteSets, TLC

(***************************************************************************)
(* Bounds of the model.                                                    *)
(***************************************************************************)
NPaths == 3            \* paths 0..NPaths-1 on the seed host; path 0 is the root
MaxLinks == 2          \* <a href> tags per served page
MaxDepthBound == 2     \* max_depth ranges over 0..MaxDepthBound
MaxPagesBound == 3     \* max_pages ranges over 0..MaxPagesBound, one less with a store
ConcurrentBound == 2   \* max_concurrent_requests of the modelled crawler
WorkersBound == 2      \* persistence_workers of the modelled crawler
ParseWorkersBound == 2 \* parse_workers at most
RetriesBound == 2      \* max_retries of the modelled crawler
MaxPathLen == 3        \* pieces of the path of a URL text
MaxPairs == 2          \* key=value fields of the query of a URL text

(***************************************************************************)
(* URLs.  A URL is <scheme>://<host><path>[/]: the scheme, the host, the   *)
(* path (0 is the root) and whether the text ends in a slash.              *)
(***************************************************************************)
SeedHost == "docs.example.com"
OtherHost == "other.org"
Paths == 0 .. (NPaths - 1)
RootPath == 0

\* Only path 1 is also linked to with a trailing slash.
InUrls ==
    {u \in [scheme : {"https"}, host : {SeedHost}, path : Paths, slash : BOOLEAN] :
        u.slash => u.path = 1}
OutUrl == [scheme |-> "https", host |-> OtherHost, path |-> RootPath, slash |-> FALSE]
FtpUrl == [scheme |-> "ftp", host |-> SeedHost, path |-> RootPath, slash |-> FALSE]
AllUrls == InUrls \cup {OutUrl, FtpUrl}

\* _normalize_url on the modelled URLs: a trailing slash is removed except
\* for the root, whose empty path becomes "/" (re.sub(...) or '/').
NormalizeUrl(u) == [u EXCEPT !.slash = (u.path = RootPath)]

Fingerprints == {NormalizeUrl(u) : u \in AllUrls}

\* The scheme test alone.
IsValidUrlAnyHost(u, base) == u.scheme \in {"http", "https"}

\* _is_valid_url: http(s) scheme and the same netloc as the base; no
\* modelled URL matches a skip pattern.
IsValidUrl(u, base) == u.scheme \in {"http", "https"} /\ u.host = base.host

(***************************************************************************)
(* Page content.  _extract_content has already collapsed white space, so   *)
(* _compute_content_hash only adds the lower-casing; md5 is taken to be    *)
(* injective on these texts.                                               *)
(***************************************************************************)
Contents == {"", "intro", "INTRO", "guide"}

Lower(c) == IF c = "INTRO" THEN "intro" ELSE c

ComputeContentHash(c) == Lower(c)

\* The targets of the <a href> tags a served page can hold, in document
\* order.
RECURSIVE SeqsUpTo(_, _)
SeqsUpTo(S, n) ==
    IF n = 0 THEN {<<>>}
    ELSE LET shorter == SeqsUpTo(S, n - 1)
         IN  shorter \cup {Append(s, x) : s \in {t \in shorter : Len(t) = n - 1}, x \in S}

Hrefs == SeqsUpTo(AllUrls, MaxLinks)

\* Lines 322-335 of _parse_html_in_thread: keep the in-scope targets, the
\* first of each fingerprint, in document order.
RECURSIVE ExtractLinks(_, _, _)
ExtractLinks(hrefs, base, seen) ==
    IF hrefs = <<>> THEN <<>>
    ELSE LET h == Head(hrefs)
             n == NormalizeUrl(h)
         IN  IF IsValidUrl(h, base) /\ n \notin seen
             THEN <<h>> \o ExtractLinks(Tail(hrefs), base, seen \cup {n})
             ELSE ExtractLinks(Tail(hrefs), base, seen)

\* The hrefs of a page that line 326 drops as out of scope.
OutOfScope(hrefs, base) ==
    {hrefs[k] : k \in {j \in 1 .. Len(hrefs) : ~IsValidUrl(hrefs[j], base)}}

\* page_data without its links.  Nothing reads page_data['links'] before the
\* results loop of the scheduler, so the model draws the hrefs of a page
\* when that loop reaches it, and applies ExtractLinks to them there.
PageData(url, content) == [url |-> url, content |-> content]

(***************************************************************************)
(* HTTP responses to a page GET.                                           *)
(***************************************************************************)
Statuses == {200, 203, 400, 404, 499, 503}

\* "error" is a timeout or a network error raised by session.get; "html"
\* says whether the content type holds text/html, "body" whether
\* response.text() returns.
Responses ==
    {[kind |-> "error", status |-> 0, html |-> FALSE, body |-> FALSE]}
    \cup [kind : {"response"}, status : Statuses, html : BOOLEAN, body : {TRUE}]
    \cup {[kind |-> "response", status |-> 200, html |-> TRUE, body |-> FALSE]}

(***************************************************************************)
(* The vector store's files under ./data/documents.                        *)
(***************************************************************************)
\* _generate_source_id: "source_" and the netloc with '.' and '-' replaced.
Slug(host) == IF host = SeedHost THEN "docs_example_com" ELSE "other_org"

GenerateSourceId(url) == "source_" \o Slug(url.host)

\* The index file _update_document_index writes ...
SourceIndexFile(source_id) == source_id \o "_index.json"

\* ... and the one get_all_documents_metadata reads.
GlobalIndexFile == "document_index.json"

IndexFileNames == {GlobalIndexFile} \cup {SourceIndexFile(GenerateSourceId(u)) : u \in AllUrls}

\* The file _save_document_locally writes, and the one get_document_by_id
\* reads, as paths below the documents directory.
SavedDocPath(source_id, doc_id) == <<source_id, doc_id \o ".json">>

ReadDocPath(doc_id) == <<doc_id \o ".json">>

\* uuid4: the n-th identifier drawn.
DocId(n) == "doc" \o ToString(n)

LegacyId == "legacy"

NoFiles == [f \in IndexFileNames |-> <<>>]

\* A page of the site other than the seed that an earlier run has stored.
KnownPage == [scheme |-> "https", host |-> SeedHost, path |-> 1, slash |-> FALSE]

\* What the documents directory can hold when a run starts: nothing, or an
\* index in the flat layout that check_urls_exist reads, naming the seed, with
\* or without the document file it points to, or naming another page.
LegacyDoc(u) == [id |-> LegacyId, url |-> u, content |-> "guide"]

LegacyIndex(u) == [NoFiles EXCEPT ![GlobalIndexFile] = <<[id |-> LegacyId, url |-> u]>>]

LegacyFile(u) == [path |-> ReadDocPath(LegacyId), doc |-> LegacyDoc(u)]

LegacyStores(seed) ==
    {[index |-> NoFiles, docs |-> {}],
     [index |-> LegacyIndex(seed), docs |-> {LegacyFile(seed)}],
     [index |-> LegacyIndex(seed), docs |-> {}],
     [index |-> LegacyIndex(KnownPage), docs |-> {LegacyFile(KnownPage)}]}

\* check_urls_exist for one URL: the last entry of the flat index with that
\* URL, as a sequence of at most one entry.
CheckUrlsExist(index, u) ==
    LET entries == index[GlobalIndexFile]
        hits == {i \in 1 .. Len(entries) : entries[i].url = u}
    IN  IF hits = {} THEN <<>>
        ELSE <<entries[CHOOSE i \in hits : \A j \in hits : j <= i]>>

\* get_existing_documents_for_urls for one URL: the document read from the
\* flat layout, or nothing when the URL is unknown or the file is missing.
GetExistingDocuments(index, docs, u) ==
    LET info == CheckUrlsExist(index, u)
    IN  IF info = <<>> THEN <<>>
        ELSE LET found == {f \in docs : f.path = ReadDocPath(info[1].id)}
             IN  IF found = {} THEN <<>> ELSE <<(CHOOSE f \in found : TRUE).doc>>

\* store_documents([page], source_url) up to and including
\* _save_document_locally: a page with blank content is skipped.
SaveDocumentLocally(docs, page, source_url, n) ==
    IF page.content = "" THEN docs
    ELSE docs \cup {[path |-> SavedDocPath(GenerateSourceId(source_url), DocId(n)),
                     doc |-> [id |-> DocId(n), url |-> page.url, content |-> page.content]]}

\* _update_document_index: the entry goes to the index file of the source.
UpdateDocumentIndex(index, page, source_url, n) ==
    IF page.content = "" THEN index
    ELSE [index EXCEPT ![SourceIndexFile(GenerateSourceId(source_url))] =
              Append(@, [id |-> DocId(n), url |-> page.url])]

(***************************************************************************)
(* State.                                                                  *)
(***************************************************************************)
VARIABLES
    mode,                     \* which entry point runs: "dup_check" or "plain"
    start_url, max_depth, max_pages, max_retries,
    max_concurrent_requests, persistence_workers, parse_workers,
    site_canonicals,          \* the URLs the pages of the site may name in a
                              \* <link rel="canonical">
    vector_store,             \* whether the crawler was given a vector store
    pc,                       \* where the scheduler coroutine is
    url_queue,                \* the frontier: a deque of (url, depth), popped on the right
    tasks,                    \* the process_url tasks of the batch being gathered
    ri,                       \* index of the next result in the results loop
    page_links,               \* page_data['links'] of that result, once drawn, and
                              \* the hrefs of the page left out of them as out of scope
    new_pages_count, new_pages, existing_documents,
    page_queue, unfinished,   \* the asyncio.Queue and its count of unfinished items
    workers,                  \* the persistence workers
    result,                   \* the returned dictionary, once built
    visited_fingerprints, content_hashes, robot_parsers,
    index_files, doc_files, next_doc,
    admissions,               \* history: admissions to fetching, per fingerprint
    page_gets,                \* history: the (url, depth) entries a page GET was issued for
    store_failures,           \* history: store_documents calls that raised
    stored_urls,              \* history: URLs store_documents indexed successfully
    store_calls,              \* history: url -> times a page of that url was passed
                              \* to store_documents
    reported,                 \* history: URLs check_urls_exist reported as existing
    robots_gets,              \* history: GETs of robots.txt issued
    raw_urls,                 \* the URL texts given to _normalize_url
    fingerprint_cache,        \* _fingerprint_cache: text -> fingerprint
    runs,                     \* the invocations of crawl_domain_with_duplicate_check
                              \* on the crawler object of the /crawl endpoint
    session,                  \* self.session: the ClientSession last created (0: None)
    closed,                   \* the sessions that have been closed
    data_files,               \* the crawled_data_*.json files of the Streamlit app
    hash_seed,                \* the salt of hash(str) in the running app process
    saves,                    \* the number of save_to_json calls so far
    lookup                    \* the last call of check_existing_data and its return

config == <<mode, start_url, max_depth, max_pages, max_retries,
            max_concurrent_requests, persistence_workers, parse_workers, site_canonicals,
            vector_store>>
sched == <<pc, url_queue, ri, page_links, new_pages_count, result>>
pipeline == <<page_queue, unfinished, workers>>
sets == <<visited_fingerprints, content_hashes, robot_parsers>>
store == <<index_files, doc_files, next_doc>>
history == <<admissions, page_gets, store_failures, stored_urls, store_calls, reported,
             robots_gets>>
normalizer == <<raw_urls, fingerprint_cache>>
service == <<runs, session, closed>>
saved == <<data_files, hash_seed, saves, lookup>>
vars == <<config, sched, tasks, new_pages, existing_documents, pipeline, sets, store, history,
          normalizer, service, saved>>

\* No invocation through the /crawl endpoint, and no file of the Streamlit
\* app: the state of both while one crawl is looked at on its own.
NoLookup == [asked |-> FALSE, url |-> <<>>, data |-> <<>>]

NoService == runs = <<>> /\ session = 0 /\ closed = {}

NoSaved == data_files = {} /\ hash_seed = 0 /\ saves = 0 /\ lookup = NoLookup

Seed == [scheme |-> "https", host |-> SeedHost, path |-> RootPath, slash |-> FALSE]

Min(a, b) == IF a < b THEN a ELSE b

\* robot_parsers[robots_url] for the seed host: not yet requested, None
\* (fail-open), or a parsed file with its disallowed paths.
RobotsUnset == [state |-> "unset", disallow |-> {}]
RobotsNone == [state |-> "none", disallow |-> {}]
RobotsFiles == {[state |-> "parser", disallow |-> {NPaths - 1}]}

\* The outcomes of GET /robots.txt (lines 180-190): session.get raises, a
\* status other than 200, a 200 whose body cannot be read, or a 200 with the
\* rules of a robots file.
NoRobotsAnswer == [kind |-> "none", status |-> 0, body |-> FALSE, rules |-> RobotsNone]

RobotsResponses ==
    {[kind |-> "error", status |-> 0, body |-> FALSE, rules |-> RobotsNone]}
    \cup [kind : {"response"}, status : {404, 503}, body : {TRUE}, rules : RobotsFiles]
    \cup [kind : {"response"}, status : {200}, body : BOOLEAN, rules : RobotsFiles]

\* A parser made from the body whatever the status.
GetRobotParserAnyStatus(r) ==
    IF r.kind = "response" /\ r.body THEN r.rules ELSE RobotsNone

\* Lines 180-192: what _get_robot_parser caches for an answer.
GetRobotParser(r) ==
    IF r.kind = "response" /\ r.status = 200 /\ r.body THEN r.rules ELSE RobotsNone

NoResult == [built |-> FALSE, new_pages |-> <<>>, existing_documents |-> <<>>,
             total_visited |-> 0, successful_new_pages |-> 0,
             retrieved_existing_documents |-> 0]

NewTask(entry) ==
    [url |-> entry.url, depth |-> entry.depth, pc |-> "start", attempt |-> 0,
     gets |-> 0, sleeps |-> <<>>, parses |-> 0, answers |-> <<>>,
     robots |-> NoRobotsAnswer,
     data |-> <<>>, result |-> <<>>]

NewWorker == [pc |-> "get", page |-> <<>>]

\* The state after lines 492-515 (or 416-428): sets cleared, the seed in the
\* frontier, the queue and the workers created when there is a vector store.
Init ==
    /\ mode \in {"dup_check", "plain"}
    /\ start_url = Seed
    /\ max_depth \in 0 .. MaxDepthBound
    /\ vector_store \in (IF mode = "plain" THEN {FALSE} ELSE BOOLEAN)
    /\ max_pages \in 0 .. (IF vector_store THEN MaxPagesBound - 1 ELSE MaxPagesBound)
    /\ max_retries = RetriesBound
    /\ max_concurrent_requests = ConcurrentBound
    /\ persistence_workers = WorkersBound
    /\ parse_workers \in (IF mode = "dup_check" /\ ~vector_store
                         THEN 1 .. ParseWorkersBound ELSE {ParseWorkersBound})
    /\ site_canonicals = {}
    /\ pc = "loop"
    /\ url_queue = <<[url |-> start_url, depth |-> 0]>>
    /\ tasks = <<>>
    /\ ri = 0
    /\ page_links = <<>>
    /\ new_pages_count = 0
    /\ new_pages = <<>>
    /\ existing_documents = <<>>
    /\ page_queue = <<>>
    /\ unfinished = 0
    /\ workers = IF vector_store THEN [w \in 1 .. persistence_workers |-> NewWorker] ELSE <<>>
    /\ result = NoResult
    /\ visited_fingerprints = {}
    /\ content_hashes = {}
    /\ robot_parsers = RobotsUnset    \* cached from the first entry on
    /\ \E legacy \in (IF vector_store THEN LegacyStores(start_url) ELSE {[index |-> NoFiles, docs |-> {}]}) :
          /\ index_files = legacy.index
          /\ doc_files = legacy.docs
    /\ next_doc = 1
    /\ admissions = [f \in Fingerprints |-> 0]
    /\ page_gets = {}
    /\ store_failures = 0
    /\ stored_urls = {}
    /\ store_calls = <<>>
    /\ reported = {}
    /\ robots_gets = 0
    /\ raw_urls = <<>>
    /\ fingerprint_cache = <<>>
    /\ NoService
    /\ NoSaved

(***************************************************************************)
(* process_url and _fetch_page: one task per entry of the batch.           *)
(***************************************************************************)
\* The trace of one _fetch_page call (GETs issued, the exponents of the
\* back-off sleeps, parses, the answers received) is kept when _fetch_page
\* is run on its own.
Traced == mode = "fetch_page"

\* The task ends: the locals of _fetch_page are gone, its result stays.
Finish(t, res) == [t EXCEPT !.pc = "done", !.result = res, !.attempt = IF Traced THEN @ ELSE 0]

\* Permits of self._semaphore in use: held from the GET to the end of the
\* attempt, parsing included (lines 347-375).
PermitHolders == {i \in DOMAIN tasks : tasks[i].pc \in {"await", "parse_wait", "parse_add"}}

InFlight == Cardinality(PermitHolders)

\* The threads of self._parse_executor that run _parse_html_in_thread.
ParsesRunning == Cardinality({i \in DOMAIN tasks : tasks[i].pc = "parse_add"})

\* A pool that starts every parse at once.
PoolThreadAlwaysFree == TRUE

\* ThreadPoolExecutor(max_workers=self.parse_workers), line 58: a submitted
\* parse starts when fewer than parse_workers threads are busy.
PoolThreadFree == ParsesRunning < parse_workers

\* A verdict that allows every URL.
AllowedWhateverRules(parser, u) == TRUE

\* RobotFileParser.can_fetch, and None meaning allow.
IsAllowedByRobots(parser, u) == parser.state # "parser" \/ u.path \notin parser.disallow

\* An admission that leaves the marking of the fingerprint to later.
AdmitUnmarked(i, parser, answer) ==
    LET t == [tasks[i] EXCEPT !.robots = answer]
    IN  IF ~IsAllowedByRobots(parser, t.url)
        THEN /\ tasks' = [tasks EXCEPT ![i] = Finish(t, <<>>)]
             /\ UNCHANGED <<visited_fingerprints, admissions>>
        ELSE /\ UNCHANGED visited_fingerprints
             /\ admissions' = [admissions EXCEPT ![NormalizeUrl(t.url)] = @ + 1]
             /\ tasks' = [tasks EXCEPT ![i] = [t EXCEPT !.pc =
                    IF mode = "dup_check" /\ vector_store THEN "exists" ELSE "fetch"]]

\* Lines 216-220 and 527-528: the robots verdict, then the fingerprint is
\* marked visited and the task goes on to the store check or to the fetch.
\* answer is the outcome of the robots GET this task has waited for, if any.
AdmitOrReject(i, parser, answer) ==
    LET t == [tasks[i] EXCEPT !.robots = answer]
        n == NormalizeUrl(t.url)
    IN  IF ~IsAllowedByRobots(parser, t.url)
        THEN /\ tasks' = [tasks EXCEPT ![i] = Finish(t, <<>>)]
             /\ UNCHANGED <<visited_fingerprints, admissions>>
        ELSE /\ visited_fingerprints' = visited_fingerprints \cup {n}
             /\ admissions' = [admissions EXCEPT ![n] = @ + 1]
             /\ tasks' = [tasks EXCEPT ![i] = [t EXCEPT !.pc =
                    IF mode = "dup_check" /\ vector_store THEN "exists" ELSE "fetch"]]

\* A cache that is never found filled.
RobotsNeverCached == FALSE

\* Line 170: the parser of the robots URL is in the cache.
RobotsCached == robot_parsers # RobotsUnset

\* _should_visit up to its first suspension point.
TaskStart(i) ==
    LET t == tasks[i]
    IN  /\ pc = "gather"
        /\ t.pc = "start"
        /\ IF \/ t.depth > max_depth
              \/ ~IsValidUrl(t.url, start_url)
              \/ NormalizeUrl(t.url) \in visited_fingerprints
           THEN /\ tasks' = [tasks EXCEPT ![i] = Finish(t, <<>>)]
                /\ UNCHANGED <<visited_fingerprints, admissions, robots_gets>>
           ELSE IF ~RobotsCached
           THEN /\ tasks' = [tasks EXCEPT ![i].pc = "robots"]
                /\ robots_gets' = robots_gets + 1
                /\ UNCHANGED <<visited_fingerprints, admissions>>
           ELSE /\ AdmitOrReject(i, robot_parsers, t.robots)
                /\ UNCHANGED robots_gets
        /\ UNCHANGED <<config, normalizer, service, saved, sched, new_pages, existing_documents, pipeline,
                       content_hashes, robot_parsers, store, page_gets,
                       store_failures, stored_urls, store_calls, reported>>

\* _get_robot_parser resumes with the answer to GET /robots.txt and caches
\* it; _should_visit and process_url then run on without a new visited test.
TaskRobots(i) ==
    /\ pc = "gather"
    /\ tasks[i].pc = "robots"
    /\ \E answer \in RobotsResponses :
          /\ robot_parsers' = GetRobotParser(answer)
          /\ AdmitOrReject(i, GetRobotParser(answer), answer)
    /\ UNCHANGED <<config, normalizer, service, saved, sched, new_pages, existing_documents, pipeline,
                   content_hashes, store, page_gets, store_failures, stored_urls, store_calls, reported,
                   robots_gets>>

\* A known URL that is fetched all the same.
AfterKnownFetches(t) == [t EXCEPT !.pc = "fetch"]

\* Line 544: process_url returns None for a known URL.
AfterKnown(t) == Finish(t, <<>>)

\* Lines 531-543: _check_existing_urls, and for a known URL the stored
\* document instead of a fetch.  A failed check counts as unknown.
TaskExists(i) ==
    LET t == tasks[i]
    IN  /\ pc = "gather"
        /\ t.pc = "exists"
        /\ \E check_ok \in BOOLEAN, read_ok \in BOOLEAN :
              IF check_ok /\ CheckUrlsExist(index_files, t.url) # <<>>
              THEN /\ existing_documents' = existing_documents \o
                         (IF read_ok THEN GetExistingDocuments(index_files, doc_files, t.url)
                          ELSE <<>>)
                   /\ reported' = reported \cup {t.url}
                   /\ tasks' = [tasks EXCEPT ![i] = AfterKnown(t)]
              ELSE /\ tasks' = [tasks EXCEPT ![i].pc = "fetch"]
                   /\ UNCHANGED <<existing_documents, reported>>
        /\ UNCHANGED <<config, normalizer, service, saved, sched, new_pages, pipeline, sets, store, admissions,
                       page_gets, store_failures, stored_urls, store_calls,
                       robots_gets>>

\* The head of the retry loop: the loop test, then the permit and the GET.
TaskGet(i) ==
    LET t == tasks[i]
    IN  /\ pc = "gather"
        /\ t.pc = "fetch"
        /\ IF t.attempt < max_retries
           THEN /\ InFlight < max_concurrent_requests
                /\ tasks' = [tasks EXCEPT ![i].pc = "await",
                                        ![i].gets = IF Traced THEN @ + 1 ELSE @]
                /\ page_gets' = page_gets \cup {[url |-> t.url, depth |-> t.depth]}
           ELSE /\ tasks' = [tasks EXCEPT ![i] = Finish(t, <<>>)]
                /\ UNCHANGED page_gets
        /\ UNCHANGED <<config, normalizer, service, saved, sched, new_pages, existing_documents, pipeline, sets,
                       store, admissions, store_failures, stored_urls, store_calls, reported,
                       robots_gets>>

\* 400 itself taken for a failure worth retrying.
FetchOutcomeAbove400(r) ==
    IF r.kind = "error" THEN "retry"
    ELSE IF r.status # 200
         THEN (IF 400 < r.status /\ r.status < 500 THEN "terminal" ELSE "retry")
    ELSE IF ~r.html THEN "skip"
    ELSE IF ~r.body THEN "retry"
    ELSE "parse"

\* Lines 350-381: what _fetch_page does with the outcome of one GET.
FetchOutcome(r) ==
    IF r.kind = "error" THEN "retry"
    ELSE IF r.status # 200
         THEN (IF 400 <= r.status /\ r.status < 500 THEN "terminal" ELSE "retry")
    ELSE IF ~r.html THEN "skip"
    ELSE IF ~r.body THEN "retry"
    ELSE "parse"

\* A back-off sleep after the last attempt as well.
AfterFailureAlwaysSleeps(t) ==
    IF t.attempt + 1 <= max_retries
    THEN [t EXCEPT !.attempt = @ + 1, !.pc = "backoff",
                   !.sleeps = IF Traced THEN Append(@, t.attempt + 1) ELSE @]
    ELSE Finish([t EXCEPT !.attempt = @ + 1], <<>>)

\* Lines 383-389: after a failed attempt.
AfterFailure(t) ==
    IF t.attempt + 1 < max_retries
    THEN [t EXCEPT !.attempt = @ + 1, !.pc = "backoff",
                   !.sleeps = IF Traced THEN Append(@, t.attempt + 1) ELSE @]
    ELSE Finish([t EXCEPT !.attempt = @ + 1], <<>>)

\* _is_duplicate_content, its membership test.
IsDuplicateContent(content) == ComputeContentHash(content) \in content_hashes

\* The <link rel="canonical"> a served page can hold: none, or one URL.
CanonicalLinks == {<<>>} \cup {<<u>> : u \in site_canonicals}

\* Lines 299-308: a canonical URL of another fingerprint replaces the URL of
\* the page.
CanonicalUrl(url, canonical) ==
    IF canonical # <<>> /\ NormalizeUrl(canonical[1]) # NormalizeUrl(url)
    THEN canonical[1]
    ELSE url

\* A parse that runs the duplicate test on empty content as well.
ParseStartTestsEmpty(t, content, canonical, parse_ok) ==
    LET page == PageData(CanonicalUrl(t.url, canonical), content)
    IN  IF ~parse_ok THEN Finish(t, <<>>)
        ELSE IF IsDuplicateContent(content) THEN Finish(t, <<>>)
        ELSE [t EXCEPT !.pc = "parse_add", !.data = <<page>>]

\* _parse_html_in_thread up to the membership test of
\* _is_duplicate_content: until then the thread touches nothing shared.
ParseStart(t, content, canonical, parse_ok) ==
    LET page == PageData(CanonicalUrl(t.url, canonical), content)
    IN  IF ~parse_ok THEN Finish(t, <<>>)
        ELSE IF content = "" THEN Finish(t, <<page>>)
        ELSE IF IsDuplicateContent(content) THEN Finish(t, <<>>)
        ELSE [t EXCEPT !.pc = "parse_add", !.data = <<page>>]

\* The GET completes.  A page is handed to the parse pool (lines 363-370);
\* with a free thread the parse starts in the same step, otherwise the
\* task waits for one, its permit still held.
TaskResponse(i) ==
    LET t == tasks[i]
    IN  /\ pc = "gather"
        /\ t.pc = "await"
        /\ \E r \in Responses :
              LET u == IF Traced THEN [t EXCEPT !.answers = Append(@, r)] ELSE t
                  o == FetchOutcome(r)
              IN  IF o = "retry" THEN tasks' = [tasks EXCEPT ![i] = AfterFailure(u)]
                  ELSE IF o \in {"terminal", "skip"} THEN tasks' = [tasks EXCEPT ![i] = Finish(u, <<>>)]
                  ELSE \E content \in Contents :
                          LET v == IF Traced THEN [u EXCEPT !.parses = @ + 1] ELSE u
                          IN  IF PoolThreadFree
                              THEN \E canonical \in CanonicalLinks, parse_ok \in BOOLEAN :
                                      tasks' = [tasks EXCEPT ![i] =
                                                   ParseStart(v, content, canonical, parse_ok)]
                              ELSE tasks' = [tasks EXCEPT ![i] =
                                      [v EXCEPT !.pc = "parse_wait",
                                                !.data = <<PageData(t.url, content)>>]]
        /\ UNCHANGED <<config, normalizer, service, saved, sched, new_pages, existing_documents, pipeline, sets,
                       store, history>>

\* A thread of the pool has become free and takes the waiting parse.
TaskParseStart(i) ==
    LET t == tasks[i]
    IN  /\ pc = "gather"
        /\ t.pc = "parse_wait"
        /\ PoolThreadFree
        /\ \E canonical \in CanonicalLinks, parse_ok \in BOOLEAN :
              tasks' = [tasks EXCEPT ![i] =
                           ParseStart([t EXCEPT !.data = <<>>], t.data[1].content,
                                      canonical, parse_ok)]
        /\ UNCHANGED <<config, normalizer, service, saved, sched, new_pages, existing_documents, pipeline, sets,
                       store, history>>

\* asyncio.sleep(backoff) returns.
TaskWake(i) ==
    /\ pc = "gather"
    /\ tasks[i].pc = "backoff"
    /\ tasks' = [tasks EXCEPT ![i].pc = "fetch"]
    /\ UNCHANGED <<config, normalizer, service, saved, sched, new_pages, existing_documents, pipeline, sets,
                   store, history>>

\* The parse thread goes on from the membership test: the hash is added,
\* and the page is returned through _fetch_page.
TaskParseAdd(i) ==
    LET t == tasks[i]
    IN  /\ pc = "gather"
        /\ t.pc = "parse_add"
        /\ content_hashes' = content_hashes \cup {ComputeContentHash(t.data[1].content)}
        /\ tasks' = [tasks EXCEPT ![i] = Finish([t EXCEPT !.data = <<>>], t.data)]
        /\ UNCHANGED <<config, normalizer, service, saved, sched, new_pages, existing_documents, pipeline,
                       visited_fingerprints, robot_parsers, store, history>>

(***************************************************************************)
(* The scheduler: crawl_domain_with_duplicate_check and crawl_domain.      *)
(***************************************************************************)
LoopCondition == url_queue # <<>> /\ new_pages_count < max_pages

\* A batch sized by the concurrency limit alone.
BatchSizeNoBudget == IF mode = "dup_check" THEN max_concurrent_requests ELSE 1

\* Line 552; crawl_domain pops one entry per iteration (line 432).
BatchSize ==
    IF mode = "dup_check"
    THEN Min(max_concurrent_requests, max_pages - new_pages_count)
    ELSE 1

\* A batch taken from the old end of the frontier.
PopBatchFifo(queue, n) == [k \in 1 .. n |-> queue[k]]

\* Lines 556-557: pop() takes from the right end, so the batch holds the
\* most recently pushed entries, last pushed first.
PopBatch(queue, n) == [k \in 1 .. n |-> queue[Len(queue) - k + 1]]

\* Lines 550-564 (431-444): the loop test holds, a batch is drawn and its
\* tasks are started; the scheduler waits in gather.
DrawBatch ==
    /\ pc = "loop"
    /\ LoopCondition
    /\ LET n == Min(BatchSize, Len(url_queue))
       IN  /\ tasks' = [k \in 1 .. n |-> NewTask(PopBatch(url_queue, n)[k])]
           /\ url_queue' = SubSeq(url_queue, 1, Len(url_queue) - n)
    /\ pc' = "gather"
    /\ UNCHANGED <<config, normalizer, service, saved, ri, page_links, new_pages_count, result, new_pages, existing_documents,
                   pipeline, sets, store, history>>

\* A gather that returns with the first finished task.
BatchStarted == \E i \in DOMAIN tasks : tasks[i].pc = "done"

\* Line 564 (line 441 for the single task of crawl_domain): every task of
\* the batch has finished.
BatchFinished == \A i \in DOMAIN tasks : tasks[i].pc = "done"

\* asyncio.gather returns once every task of the batch has finished.
CollectResults ==
    /\ pc = "gather"
    /\ BatchFinished
    /\ pc' = "results"
    /\ ri' = 1
    /\ UNCHANGED <<config, normalizer, service, saved, url_queue, page_links, new_pages_count, result, tasks, new_pages,
                   existing_documents, pipeline, sets, store, history>>

\* Every link pushed, visited or not.
NewLinksUnfiltered(links, depth) ==
    [k \in 1 .. Len(links) |-> [url |-> links[k], depth |-> depth + 1]]

\* Lines 591-597 (456-462): the links of a page whose fingerprint is not
\* visited, as frontier entries one level deeper.
RECURSIVE NewLinks(_, _)
NewLinks(links, depth) ==
    IF links = <<>> THEN <<>>
    ELSE (IF NormalizeUrl(Head(links)) \notin visited_fingerprints
          THEN <<[url |-> Head(links), depth |-> depth + 1]>>
          ELSE <<>>) \o NewLinks(Tail(links), depth)

\* Links pushed from a page at the limit as well.
ExpandsAtLimit(depth) == depth <= max_depth

\* Lines 591 and 456: links are pushed only from a page above the limit.
Expands(depth) == depth < max_depth

\* The results loop reaches a page: its links, as lines 322-335 of
\* _parse_html_in_thread extracted them from the hrefs the page holds.
ReadPageLinks ==
    /\ pc = "results"
    /\ tasks[ri].result # <<>>
    /\ page_links = <<>>
    /\ \E hrefs \in Hrefs :
          page_links' = <<ExtractLinks(hrefs, tasks[ri].result[1].url, {}),
                          OutOfScope(hrefs, tasks[ri].result[1].url)>>
    /\ UNCHANGED <<config, normalizer, service, saved, pc, url_queue, ri, new_pages_count, result, tasks, new_pages,
                   existing_documents, pipeline, sets, store, history>>

\* A persistence queue taken to exist in every run.
PageQueueAlways == TRUE

\* Lines 503-505 and 575: page_queue is created only with a vector store.
PageQueueExists == mode = "dup_check" /\ vector_store

\* One round of the results loop (lines 567-597, 446-462); after the last
\* result the scheduler sleeps or goes back to the loop test.
ProcessResult ==
    /\ pc = "results"
    /\ LET t == tasks[ri]
           last == ri = Len(tasks)
       IN  /\ IF t.result # <<>>
              THEN LET page == t.result[1]
                       links == page_links[1]
                   IN  /\ page_links # <<>>
                       /\ IF PageQueueExists
                          THEN /\ page_queue' = Append(page_queue, <<page>>)
                               /\ unfinished' = unfinished + 1
                               /\ UNCHANGED new_pages
                          ELSE /\ new_pages' = Append(new_pages, page)
                               /\ UNCHANGED <<page_queue, unfinished>>
                       /\ new_pages_count' = new_pages_count + 1
                       /\ url_queue' = IF Expands(t.depth)
                                       THEN url_queue \o NewLinks(links, t.depth)
                                       ELSE url_queue
                       /\ page_links' = <<>>
              ELSE UNCHANGED <<page_queue, unfinished, new_pages, new_pages_count,
                               url_queue, page_links>>
           /\ ri' = IF last THEN 0 ELSE ri + 1
           /\ tasks' = IF last THEN <<>> ELSE tasks
           /\ pc' = IF ~last THEN "results"
                    ELSE IF mode = "plain" \/ (url_queue' # <<>> /\ new_pages_count' < max_pages)
                         THEN "sleep" ELSE "loop"
    /\ UNCHANGED <<config, normalizer, service, saved, result, existing_documents, workers, sets, store, history>>

\* asyncio.sleep(0.05) (0.1 in crawl_domain) returns.  crawl_domain skips its
\* sleep after a rejected entry; no other coroutine runs during it.
WakeScheduler ==
    /\ pc = "sleep"
    /\ pc' = "loop"
    /\ UNCHANGED <<config, normalizer, service, saved, url_queue, ri, page_links, new_pages_count, result, tasks, new_pages,
                   existing_documents, pipeline, sets, store, history>>

\* Lines 604-606: the loop has ended; one None per persistence task.
\* A single None, whatever the number of workers.
SentinelsSingle == << <<>> >>

\* Lines 605-606: one None per persistence task.
Sentinels == [k \in 1 .. Len(workers) |-> <<>>]

EndLoop ==
    /\ pc = "loop"
    /\ ~LoopCondition
    /\ IF mode = "dup_check" /\ vector_store
       THEN /\ page_queue' = page_queue \o Sentinels
            /\ unfinished' = unfinished + Len(Sentinels)
            /\ pc' = "join"
       ELSE /\ pc' = "return"
            /\ UNCHANGED <<page_queue, unfinished>>
    /\ UNCHANGED <<config, normalizer, service, saved, url_queue, ri, page_links, new_pages_count, result, tasks, new_pages,
                   existing_documents, workers, sets, store, history>>

\* Line 607: page_queue.join() returns when no item is unfinished.
JoinQueue ==
    /\ pc = "join"
    /\ unfinished = 0
    /\ pc' = "gather_workers"
    /\ UNCHANGED <<config, normalizer, service, saved, url_queue, ri, page_links, new_pages_count, result, tasks, new_pages,
                   existing_documents, pipeline, sets, store, history>>

\* Line 608: gather of the persistence tasks.
GatherWorkers ==
    /\ pc = "gather_workers"
    /\ \A w \in DOMAIN workers : workers[w].pc = "exit"
    /\ pc' = "return"
    /\ UNCHANGED <<config, normalizer, service, saved, url_queue, ri, page_links, new_pages_count, result, tasks, new_pages,
                   existing_documents, pipeline, sets, store, history>>

\* Lines 614-621 (469-473): the result dictionary.
Return ==
    /\ pc = "return"
    /\ result' = [built |-> TRUE, new_pages |-> new_pages,
                  existing_documents |-> existing_documents,
                  total_visited |-> Cardinality(visited_fingerprints),
                  successful_new_pages |-> Len(new_pages),
                  retrieved_existing_documents |-> Len(existing_documents)]
    /\ pc' = "done"
    /\ UNCHANGED <<config, normalizer, service, saved, url_queue, ri, page_links, new_pages_count, tasks, new_pages,
                   existing_documents, pipeline, sets, store, history>>

(***************************************************************************)
(* _persistence_worker.  A worker runs only while the scheduler is         *)
(* suspended.                                                              *)
(***************************************************************************)
SchedulerSuspended == pc \in {"gather", "sleep", "join", "gather_workers"}

\* A None taken without task_done().
TaskDoneForgotten(n) == n

\* Line 395: queue.task_done() for the None, before the break.
TaskDone(n) == n - 1

\* queue.get() returns: a None ends the worker, a page starts
\* store_documents.
WorkerGet(w) ==
    /\ SchedulerSuspended
    /\ workers[w].pc = "get"
    /\ page_queue # <<>>
    /\ page_queue' = Tail(page_queue)
    /\ IF Head(page_queue) = <<>>
       THEN /\ workers' = [workers EXCEPT ![w].pc = "exit"]
            /\ unfinished' = TaskDone(unfinished)
       ELSE /\ workers' = [workers EXCEPT ![w] = [pc |-> "store", page |-> Head(page_queue)]]
            /\ UNCHANGED unfinished
    /\ UNCHANGED <<config, normalizer, service, saved, sched, tasks, new_pages, existing_documents, sets, store, history>>

\* A worker that ends when store_documents raises.
WorkerDiesOnFailure(outcome) ==
    IF outcome = "stored" THEN NewWorker ELSE [pc |-> "exit", page |-> <<>>]

\* Lines 396-410: the exception is caught and logged, task_done runs in the
\* finally clause, and the while loop goes back to queue.get().
WorkerAfterStore(outcome) == NewWorker

\* One more page of that url handed to store_documents.
Calls(calls, url) == IF url \in DOMAIN calls THEN calls[url] ELSE 0

Passed(calls, url) == (url :> Calls(calls, url) + 1) @@ calls

\* store_documents returns or raises (lines 404-410).  It can raise before
\* the document file is written (set_active_source) or after it (the
\* embeddings, the collection), and in both cases before the index is.
WorkerStore(w) ==
    LET page == workers[w].page[1]
        blank == page.content = ""
    IN  /\ SchedulerSuspended
        /\ workers[w].pc = "store"
        /\ \E outcome \in {"stored", "raised_early", "raised_late"} :
              /\ doc_files' = IF outcome = "raised_early" THEN doc_files
                              ELSE SaveDocumentLocally(doc_files, page, start_url, next_doc)
              /\ next_doc' = IF outcome = "raised_early" \/ blank THEN next_doc ELSE next_doc + 1
              /\ index_files' = IF outcome = "stored"
                                THEN UpdateDocumentIndex(index_files, page, start_url, next_doc)
                                ELSE index_files
              /\ new_pages' = IF outcome = "stored" THEN Append(new_pages, page) ELSE new_pages
              /\ store_failures' = IF outcome = "stored" THEN store_failures ELSE store_failures + 1
              /\ stored_urls' = IF outcome = "stored" /\ ~blank
                                THEN stored_urls \cup {page.url} ELSE stored_urls
              /\ store_calls' = Passed(store_calls, page.url)
              /\ workers' = [workers EXCEPT ![w] = WorkerAfterStore(outcome)]
        /\ unfinished' = unfinished - 1
        /\ UNCHANGED <<config, normalizer, service, saved, sched, tasks, existing_documents, page_queue, sets,
                       admissions, page_gets, reported, robots_gets>>

(***************************************************************************)
(* The crawl run.                                                          *)
(***************************************************************************)
TaskStep ==
    \E i \in DOMAIN tasks :
        \/ TaskStart(i)
        \/ TaskRobots(i)
        \/ TaskExists(i)
        \/ TaskGet(i)
        \/ TaskResponse(i)
        \/ TaskWake(i)
        \/ TaskParseStart(i)
        \/ TaskParseAdd(i)

SchedulerStep ==
    \/ DrawBatch
    \/ CollectResults
    \/ ReadPageLinks
    \/ ProcessResult
    \/ WakeScheduler
    \/ EndLoop
    \/ JoinQueue
    \/ GatherWorkers
    \/ Return

WorkerStep == \E w \in DOMAIN workers : WorkerGet(w) \/ WorkerStore(w)

Next == SchedulerStep \/ TaskStep \/ WorkerStep

Spec == Init /\ [][Next]_vars

\* The event loop runs a coroutine that is ready, every request and every
\* store call returns or raises: a step that can be taken is taken.
SpecLive == Spec /\ WF_vars(Next)

(***************************************************************************)
(* One call of _fetch_page on its own, with its trace kept.                *)
(***************************************************************************)
\* The hashes _content_hashes can hold when the call starts.
ContentHashes == {ComputeContentHash(c) : c \in Contents \ {""}}

\* process_url has admitted an in-scope URL and calls _fetch_page(url).
InitFetch ==
    /\ mode = "fetch_page"
    /\ start_url = Seed
    /\ max_depth = 0
    /\ max_pages = 1
    /\ max_retries \in 0 .. RetriesBound
    /\ max_concurrent_requests = ConcurrentBound
    /\ persistence_workers = WorkersBound
    /\ parse_workers = ParseWorkersBound
    /\ site_canonicals = {}
    /\ vector_store = FALSE
    /\ pc = "gather"
    /\ url_queue = <<>>
    /\ \E u \in InUrls :
          /\ tasks = <<[NewTask([url |-> u, depth |-> 0]) EXCEPT !.pc = "fetch"]>>
          /\ visited_fingerprints = {NormalizeUrl(u)}
          /\ admissions = [f \in Fingerprints |-> IF f = NormalizeUrl(u) THEN 1 ELSE 0]
    /\ ri = 0
    /\ page_links = <<>>
    /\ new_pages_count = 0
    /\ new_pages = <<>>
    /\ existing_documents = <<>>
    /\ page_queue = <<>>
    /\ unfinished = 0
    /\ workers = <<>>
    /\ result = NoResult
    /\ content_hashes \in SUBSET ContentHashes
    /\ robot_parsers = RobotsNone
    /\ index_files = NoFiles
    /\ doc_files = {}
    /\ next_doc = 1
    /\ page_gets = {}
    /\ store_failures = 0
    /\ stored_urls = {}
    /\ store_calls = <<>>
    /\ reported = {}
    /\ robots_gets = 0
    /\ raw_urls = <<>>
    /\ fingerprint_cache = <<>>
    /\ NoService
    /\ NoSaved

NextFetch ==
    \E i \in DOMAIN tasks :
        \/ TaskGet(i)
        \/ TaskResponse(i)
        \/ TaskWake(i)
        \/ TaskParseAdd(i)

SpecFetch == InitFetch /\ [][NextFetch]_vars

(***************************************************************************)
(* Properties of a crawl run.                                              *)
(***************************************************************************)
\* C1: the number of accepted new pages never exceeds max_pages, and the
\* pages handed on never exceed the accepted ones; when the run returns and no
\* store has failed, the returned new_pages holds every accepted page, and it
\* holds exactly max_pages of them whenever the frontier still offers entries.
PageCountBound ==
    /\ new_pages_count <= max_pages
    /\ Len(new_pages) <= new_pages_count
    /\ pc = "done" /\ store_failures = 0 =>
          /\ Len(result.new_pages) = new_pages_count
          /\ result.successful_new_pages = new_pages_count
          /\ url_queue # <<>> => Len(result.new_pages) = max_pages

\* A run with a store returns max_pages >= 2 new pages and leaves entries in
\* the frontier.
PageCountBoundWitness ==
    /\ pc = "done"
    /\ vector_store
    /\ store_failures = 0
    /\ max_pages >= 2
    /\ Len(result.new_pages) = max_pages
    /\ url_queue # <<>>

\* The frontier, the entries being processed and the entries a page GET was
\* issued for are all within max_depth.
DepthInvariant ==
    /\ \A k \in 1 .. Len(url_queue) : url_queue[k].depth <= max_depth
    /\ \A i \in DOMAIN tasks : tasks[i].depth <= max_depth
    /\ \A g \in page_gets : g.depth <= max_depth

\* The results loop is about to take in a page fetched at depth max_depth.
AtDepthLimit ==
    /\ pc = "results"
    /\ page_links # <<>>
    /\ tasks[ri].depth = max_depth

\* C2: every frontier entry has depth <= max_depth, no page GET is issued
\* for an entry deeper than max_depth, and taking in a page fetched at depth
\* max_depth leaves the frontier as it was.
DepthBound == []DepthInvariant /\ [][AtDepthLimit => url_queue' = url_queue]_vars

\* A page fetched at depth max_depth >= 1 reaches the results loop with a
\* link to a fingerprint not yet visited.
DepthBoundWitness ==
    /\ AtDepthLimit
    /\ max_depth >= 1
    /\ \E k \in 1 .. Len(page_links[1]) :
          NormalizeUrl(page_links[1][k]) \notin visited_fingerprints

\* C3: for every fingerprint at most one frontier entry is admitted to
\* fetching, an admitted fingerprint stays visited whatever became of its
\* fetch, and the page GETs of a run are for entries of pairwise different
\* fingerprints.
AtMostOnceFetch ==
    /\ \A f \in Fingerprints :
          /\ admissions[f] <= 1
          /\ admissions[f] = 1 => f \in visited_fingerprints
    /\ \A g, h \in page_gets : NormalizeUrl(g.url) = NormalizeUrl(h.url) => g = h

\* An entry has been turned away although no GET was ever issued for it: a GET
\* was issued for another URL of its fingerprint, and the run has not
\* accepted a page for it since the seed.
AtMostOnceFetchWitness ==
    \E i \in DOMAIN tasks :
        /\ tasks[i].pc = "done"
        /\ tasks[i].result = <<>>
        /\ [url |-> tasks[i].url, depth |-> tasks[i].depth] \notin page_gets
        /\ admissions[NormalizeUrl(tasks[i].url)] = 1
        /\ \E g \in page_gets :
              /\ NormalizeUrl(g.url) = NormalizeUrl(tasks[i].url)
              /\ g.url # tasks[i].url

\* The links of the page the results loop is taking in, and those of them
\* whose fingerprint is visited.
LinksOfPage == page_links[1]

VisitedLinks == {k \in 1 .. Len(LinksOfPage) : NormalizeUrl(LinksOfPage[k]) \in visited_fingerprints}

AboveDepthLimit ==
    /\ pc = "results"
    /\ page_links # <<>>
    /\ tasks[ri].depth < max_depth

\* C4: taking in a page at depth < max_depth with N extracted links, M of
\* them of visited fingerprints, appends exactly N - M entries to the
\* frontier, each at depth + 1 and each for a link of the page.
LinkExpansionCount ==
    [][AboveDepthLimit =>
          /\ Len(url_queue') = Len(url_queue) + Len(LinksOfPage) - Cardinality(VisitedLinks)
          /\ SubSeq(url_queue', 1, Len(url_queue)) = url_queue
          /\ \A k \in (Len(url_queue) + 1) .. Len(url_queue') :
                /\ url_queue'[k].depth = tasks[ri].depth + 1
                /\ \E j \in (1 .. Len(LinksOfPage)) \ VisitedLinks :
                      url_queue'[k].url = LinksOfPage[j]]_vars

\* A page above the depth limit carries two links, one of them visited.
LinkExpansionCountWitness ==
    /\ AboveDepthLimit
    /\ Len(LinksOfPage) = 2
    /\ Cardinality(VisitedLinks) = 1

\* C5: no two entries of new_pages carry non-empty content of the same
\* content hash.
ContentDedup ==
    \A i, j \in 1 .. Len(new_pages) :
        i # j /\ new_pages[i].content # "" =>
            ComputeContentHash(new_pages[i].content) # ComputeContentHash(new_pages[j].content)

\* C6: when the run returns and check_urls_exist has reported the seed as
\* existing, no page GET was issued for the seed and the returned
\* existing_documents holds the seed's stored document.
SeedKnownIsRetrieved ==
    pc = "done" /\ start_url \in reported =>
        /\ \A g \in page_gets : g.url # start_url
        /\ \E k \in 1 .. Len(result.existing_documents) :
              result.existing_documents[k].url = start_url

\* C7: check_urls_exist reports every URL that store_documents has stored
\* and indexed.
StoredPagesBecomeKnown == \A u \in stored_urls : CheckUrlsExist(index_files, u) # <<>>

(***************************************************************************)
(* Properties of one _fetch_page call.                                     *)
(***************************************************************************)
\* HTTP 503, a timeout or a network error.
Unavailable(r) == r.kind = "error" \/ r.status = 503

\* The exponents of the back-off sleeps between n attempts.
SleepsBetween(n) == [k \in 1 .. (n - 1) |-> k]

\* C8: as long as every answer is a 503, a timeout or a network error, the
\* call never parses, one back-off sleep lies between any two consecutive
\* GETs, and the call ends after exactly max_retries GETs, without a sleep
\* after the last one and without a page.
RetryExhaustion ==
    \A i \in DOMAIN tasks :
        LET t == tasks[i]
        IN  Traced /\ (\A k \in 1 .. Len(t.answers) : Unavailable(t.answers[k])) =>
                /\ t.gets <= max_retries
                /\ t.parses = 0
                /\ t.pc = "await" => t.sleeps = SleepsBetween(t.gets)
                /\ t.pc = "done" =>
                      /\ t.gets = max_retries
                      /\ t.sleeps = SleepsBetween(max_retries)
                      /\ t.result = <<>>

\* A call with max_retries >= 2 has ended after nothing but such answers, a
\* 503 among them.
RetryExhaustionWitness ==
    \E i \in DOMAIN tasks :
        LET t == tasks[i]
        IN  /\ Traced
            /\ max_retries >= 2
            /\ t.pc = "done"
            /\ Len(t.answers) = max_retries
            /\ \A k \in 1 .. Len(t.answers) : Unavailable(t.answers[k])
            /\ \E k \in 1 .. Len(t.answers) : t.answers[k].status = 503

ClientErrorStatus(r) == r.kind = "response" /\ 400 <= r.status /\ r.status <= 499

\* C9: an answer with a status in 400..499 is the last of the call: the
\* call has ended without a page, nothing was parsed, no GET and no back-off
\* sleep followed it, and it was the only attempt when it answered the first
\* GET.
ClientErrorIsTerminal ==
    \A i \in DOMAIN tasks :
        LET t == tasks[i]
        IN  \A k \in 1 .. Len(t.answers) :
                ClientErrorStatus(t.answers[k]) =>
                    /\ k = Len(t.answers)
                    /\ t.pc = "done"
                    /\ t.result = <<>>
                    /\ t.parses = 0
                    /\ t.gets = k
                    /\ t.attempt = k - 1
                    /\ t.sleeps = SleepsBetween(k)

\* A call that could have retried has ended on a 4xx answer to its first GET.
ClientErrorIsTerminalWitness ==
    \E i \in DOMAIN tasks :
        /\ Traced
        /\ max_retries >= 2
        /\ tasks[i].pc = "done"
        /\ tasks[i].gets = 1
        /\ Len(tasks[i].answers) = 1
        /\ ClientErrorStatus(tasks[i].answers[1])

SuccessHtml(r) ==
    r.kind = "response" /\ 200 <= r.status /\ r.status <= 299 /\ r.html /\ r.body

\* C10: an answer with a status in 200..299 and a text/html content type
\* (whose body is read) is parsed on that attempt and is not counted as a
\* failed attempt.
SuccessHtmlIsParsed ==
    \A i \in DOMAIN tasks :
        LET t == tasks[i]
        IN  \A k \in 1 .. Len(t.answers) :
                SuccessHtml(t.answers[k]) =>
                    /\ k = Len(t.answers)
                    /\ t.parses = 1
                    /\ t.attempt = k - 1
                    /\ t.pc \in {"parse_add", "done"}

SuccessNonHtml(r) ==
    r.kind = "response" /\ 200 <= r.status /\ r.status <= 299 /\ ~r.html

\* C11: an answer with a status in 200..299 whose content type does not
\* hold text/html is the last of the call: the call has ended without a
\* page, nothing was parsed, and no failed attempt, GET or back-off sleep
\* followed it.
NonHtmlIsSkipped ==
    \A i \in DOMAIN tasks :
        LET t == tasks[i]
        IN  \A k \in 1 .. Len(t.answers) :
                SuccessNonHtml(t.answers[k]) =>
                    /\ k = Len(t.answers)
                    /\ t.pc = "done"
                    /\ t.result = <<>>
                    /\ t.parses = 0
                    /\ t.gets = k
                    /\ t.attempt = k - 1
                    /\ t.sleeps = SleepsBetween(k)

(***************************************************************************)
(* Scope.                                                                  *)
(***************************************************************************)
InScope(u) == u.scheme \in {"http", "https"} /\ u.host = start_url.host

\* C12: every URL a page GET was issued for has scheme http or https and
\* the host of the seed; no page record is of another host, and the pages of
\* a run are at most max_pages + 1.
DomainConfinement ==
    /\ \A g \in page_gets : InScope(g.url)
    /\ \A k \in 1 .. Len(new_pages) : InScope(new_pages[k].url)
    /\ \A k \in 1 .. Len(page_queue) :
            page_queue[k] # <<>> => InScope(page_queue[k][1].url)
    /\ Len(new_pages) <= max_pages + 1

\* A fetched page linked to another host and to an in-scope page: the link
\* to the other host is not among the links the frontier receives.
DomainConfinementWitness ==
    /\ page_links # <<>>
    /\ OutUrl \in page_links[2]
    /\ Len(page_links[1]) = 1
    /\ \A g \in page_gets : g.url # OutUrl

(***************************************************************************)
(* Robots.                                                                 *)
(***************************************************************************)
RobotsFailed(r) ==
    r.kind = "error" \/ (r.kind = "response" /\ (r.status # 200 \/ ~r.body))

Admitted(u) == admissions[NormalizeUrl(u)] >= 1

\* C17: when the robots GET raises, answers a status other than 200 or
\* its body cannot be read, allow-all is cached and the task that waited is
\* admitted; while allow-all is cached every task that has passed the
\* admission check was admitted (none is rejected by robots), and the cached
\* allow-all is never replaced.
RobotsFailOpen ==
    /\ [](/\ \A i \in DOMAIN tasks :
                RobotsFailed(tasks[i].robots) =>
                    /\ robot_parsers = RobotsNone
                    /\ tasks[i].pc \notin {"start", "robots"}
                    /\ Admitted(tasks[i].url)
          /\ robot_parsers = RobotsNone =>
                \A i \in DOMAIN tasks :
                    tasks[i].pc \notin {"start", "robots"} => Admitted(tasks[i].url))
    /\ [][robot_parsers = RobotsNone => robot_parsers' = RobotsNone]_vars

\* Allow-all is cached and a URL a robots file would have disallowed was
\* admitted by a later check.
RobotsFailOpenWitness ==
    /\ robot_parsers = RobotsNone
    /\ \E u \in InUrls : /\ \E f \in RobotsFiles : ~IsAllowedByRobots(f, u)
                          /\ u # start_url
                          /\ Admitted(u)

\* C18: robots.txt is requested at most once in a run and never by two
\* tasks at a time; once the answer is cached no task waits for robots and
\* an admission check started with the cache filled ends in the same step.
RobotsFetchedOnce ==
    /\ [](/\ robots_gets <= 1
          /\ Cardinality({i \in DOMAIN tasks : tasks[i].pc = "robots"}) <= 1
          /\ RobotsCached => \A i \in DOMAIN tasks : tasks[i].pc # "robots")
    /\ [][RobotsCached =>
            /\ robots_gets' = robots_gets
            /\ robot_parsers' = robot_parsers
            /\ \A i \in DOMAIN tasks \cap DOMAIN tasks' :
                    tasks[i].pc = "start" /\ tasks'[i] # tasks[i] =>
                        tasks'[i].pc \in {"exists", "fetch", "done"}]_vars

\* Two admission checks of one batch have both passed after the one robots
\* request of the run.
RobotsFetchedOnceWitness ==
    /\ robots_gets = 1
    /\ \E i, j \in DOMAIN tasks :
          /\ i # j
          /\ tasks[i].pc \in {"exists", "fetch"}
          /\ tasks[j].pc \in {"exists", "fetch"}

(***************************************************************************)
(* Persistence.                                                            *)
(***************************************************************************)
WithStore == mode = "dup_check" /\ vector_store

SentinelsQueued == Cardinality({k \in 1 .. Len(page_queue) : page_queue[k] = <<>>})

WorkersExited == Cardinality({w \in DOMAIN workers : workers[w].pc = "exit"})

\* C19: before the loop has ended no None is queued and no worker has
\* exited; after it every worker has taken or will take exactly one None,
\* queued behind every page record; the result is built only with the queue
\* empty, no item unfinished, every worker exited and every enqueued record
\* stored or failed.
ShutdownProtocol ==
    WithStore =>
        /\ pc \notin {"join", "gather_workers", "return", "done"} =>
                SentinelsQueued = 0 /\ WorkersExited = 0
        /\ pc \in {"join", "gather_workers", "return", "done"} =>
                /\ SentinelsQueued + WorkersExited = Len(workers)
                /\ \A k \in 1 .. Len(page_queue) :
                        page_queue[k] = <<>> =>
                            \A j \in k .. Len(page_queue) : page_queue[j] = <<>>
        /\ pc \in {"return", "done"} =>
                /\ page_queue = <<>>
                /\ unfinished = 0
                /\ WorkersExited = Len(workers)
                /\ Len(new_pages) + store_failures = new_pages_count
        /\ result.built => result.new_pages = new_pages

\* A run with two workers returned after records were stored.
ShutdownProtocolWitness ==
    /\ WithStore
    /\ pc = "done"
    /\ Len(workers) = 2
    /\ Len(result.new_pages) = 2

\* C20: a store_documents call that raises leaves new_pages as it was and
\* its worker goes back to queue.get(); no worker exits while page records
\* are queued, and at the end every enqueued record was either stored, and
\* is then in new_pages, or failed.
FailureIsolation ==
    /\ [][\A w \in DOMAIN workers :
            workers[w].pc = "store" /\ store_failures' = store_failures + 1
                /\ workers'[w] # workers[w] =>
                    new_pages' = new_pages /\ workers'[w].pc = "get"]_vars
    /\ [](WithStore =>
            /\ \A w \in DOMAIN workers :
                    workers[w].pc = "exit" => pc \in {"join", "gather_workers", "return", "done"}
            /\ result.built =>
                    Len(result.new_pages) = new_pages_count - store_failures)

\* One record failed and another one was stored after it.
FailureIsolationWitness ==
    /\ WithStore
    /\ result.built
    /\ store_failures = 1
    /\ Len(result.new_pages) = 1

(***************************************************************************)
(* _normalize_url on URL texts.  A text is a sequence of pieces of the     *)
(* string: the scheme, "://", the pieces of the netloc ("www.", the host,  *)
(* ":port"), then "/" and segment pieces of the path, "?", key "=" value   *)
(* pieces joined by "&", and "#" with the fragment.  A percent escape is   *)
(* one piece.  The operators follow urlparse, the steps of lines 77-125    *)
(* and urlunparse on these pieces.                                         *)
(***************************************************************************)
FirstIndex(s, D) ==
    IF \E k \in 1 .. Len(s) : s[k] \in D
    THEN CHOOSE k \in 1 .. Len(s) : s[k] \in D /\ \A j \in 1 .. (k - 1) : s[j] \notin D
    ELSE Len(s) + 1

Before(s, D) == SubSeq(s, 1, FirstIndex(s, D) - 1)

From(s, D) == SubSeq(s, FirstIndex(s, D), Len(s))

After(s, D) == SubSeq(s, FirstIndex(s, D) + 1, Len(s))

\* str.lower() on the pieces that hold upper-case letters.
LowerText(p) ==
    CASE p = "HTTPS" -> "https"
      [] p = "Example.COM" -> "example.com"
      [] p = "WWW." -> "www."
      [] p = "B" -> "b"
      [] p = "UTM_Source" -> "utm_source"
      [] p = "Ref" -> "ref"
      [] OTHER -> p

\* urlparse: the scheme (lower-cased by urlsplit) before "://", the netloc
\* up to the first of / ? #, the fragment after the first #, the query
\* after the first ? before it, the path in between.
UrlParse(text) ==
    LET rest == SubSeq(text, 3, Len(text))
        tail == From(rest, {"/", "?", "#"})
        nofrag == Before(tail, {"#"})
    IN  [scheme |-> LowerText(text[1]),
         netloc |-> Before(rest, {"/", "?", "#"}),
         path |-> Before(nofrag, {"?"}),
         query |-> After(nofrag, {"?"}),
         fragment |-> After(tail, {"#"})]

\* urlunparse of a URL with a netloc: the fragment and the query follow
\* their marks only when they are not empty.
UrlUnparse(scheme, netloc, path, query, fragment) ==
    <<scheme, "://">> \o netloc \o path
        \o (IF query = <<>> THEN <<>> ELSE <<"?">> \o query)
        \o (IF fragment = <<>> THEN <<>> ELSE <<"#">> \o fragment)

\* port in piece, and piece.replace(port, ''), for the port pieces.
HoldsPort(p, port) == p = port \/ (p = ":8080" /\ port = ":80")

RECURSIVE RemovePort(_, _)
RemovePort(netloc, port) ==
    IF netloc = <<>> THEN <<>>
    ELSE (IF Head(netloc) = port THEN <<>>
          ELSE IF HoldsPort(Head(netloc), port) THEN <<"80">>
          ELSE <<Head(netloc)>>) \o RemovePort(Tail(netloc), port)

\* Lines 83-91: lower case, one leading www. removed, then the default
\* port of the scheme removed wherever its text occurs.
NormalizeNetloc(netloc, scheme) ==
    LET low == [k \in 1 .. Len(netloc) |-> LowerText(netloc[k])]
        bare == IF low # <<>> /\ low[1] = "www." THEN Tail(low) ELSE low
        has(port) == \E k \in 1 .. Len(bare) : HoldsPort(bare[k], port)
    IN  IF has(":80") /\ scheme = "http" THEN RemovePort(bare, ":80")
        ELSE IF has(":443") /\ scheme = "https" THEN RemovePort(bare, ":443")
        ELSE bare

\* re.sub(r'/+', '/', path).
RECURSIVE CollapseSlashes(_)
CollapseSlashes(path) ==
    IF Len(path) < 2 THEN path
    ELSE IF path[1] = "/" /\ path[2] = "/" THEN CollapseSlashes(Tail(path))
    ELSE <<path[1]>> \o CollapseSlashes(Tail(path))

\* urllib.parse.unquote on one piece.
Unquote(p) ==
    CASE p = "%61" -> "a"
      [] p = "%78" -> "x"
      [] p = "%2520" -> "%20"
      [] p = "%20" -> " "
      [] p = "%3F" -> "?"
      [] OTHER -> p

\* Lines 94-105: one trailing slash removed unless the path is "/", then
\* the runs of slashes collapsed (an empty path becomes "/"), then unquote.
NormalizePath(path) ==
    LET cut == IF path # <<"/">> /\ path # <<>> /\ path[Len(path)] = "/"
               THEN SubSeq(path, 1, Len(path) - 1) ELSE path
        collapsed == CollapseSlashes(cut)
        rooted == IF collapsed = <<>> THEN <<"/">> ELSE collapsed
    IN  [k \in 1 .. Len(rooted) |-> Unquote(rooted[k])]

\* The pieces between the "&" marks.
RECURSIVE SplitPairs(_)
SplitPairs(query) ==
    IF query = <<>> THEN <<>>
    ELSE <<Before(query, {"&"})>> \o SplitPairs(After(query, {"&"}))

\* The text of a run of pieces that is a single piece or empty.
PieceText(s) == IF s = <<>> THEN "" ELSE s[1]

\* parse_qsl(query, keep_blank_values=True): empty fields are skipped, a
\* field is split at its first "=", key and value are unquoted.
ParseQsl(query) ==
    LET fields == SelectSeq(SplitPairs(query), LAMBDA f : f # <<>>)
    IN  [k \in 1 .. Len(fields) |->
            [key |-> Unquote(PieceText(Before(fields[k], {"="}))),
             value |-> Unquote(PieceText(After(fields[k], {"="})))]]

\* Lines 115-116.
SkipParams ==
    {"utm_source", "utm_medium", "utm_campaign", "utm_term", "utm_content",
     "ref", "source", "fbclid", "gclid", "_ga", "_gl"}

\* The strings sorted() compares, in code point order.
CodePointOrder == <<"", "a", "b", "utm_id", "x", "y">>

Rank(str) == CHOOSE k \in 1 .. Len(CodePointOrder) : CodePointOrder[k] = str

PairBefore(p, q) ==
    Rank(p.key) < Rank(q.key) \/ (p.key = q.key /\ Rank(p.value) <= Rank(q.value))

RECURSIVE InsertPair(_, _)
InsertPair(p, sorted) ==
    IF sorted = <<>> THEN <<p>>
    ELSE IF PairBefore(p, Head(sorted)) THEN <<p>> \o sorted
    ELSE <<Head(sorted)>> \o InsertPair(p, Tail(sorted))

\* sorted(filtered_pairs).
RECURSIVE SortPairs(_)
SortPairs(pairs) ==
    IF pairs = <<>> THEN <<>> ELSE InsertPair(Head(pairs), SortPairs(Tail(pairs)))

\* urlencode: quote_plus leaves the letters, digits and "_" of the modelled
\* keys and values as they are; the fields are joined by "&".
RECURSIVE UrlEncode(_)
UrlEncode(pairs) ==
    IF pairs = <<>> THEN <<>>
    ELSE <<Head(pairs).key, "=">>
         \o (IF Head(pairs).value = "" THEN <<>> ELSE <<Head(pairs).value>>)
         \o (IF Len(pairs) = 1 THEN <<>> ELSE <<"&">> \o UrlEncode(Tail(pairs)))

\* Lines 110-122: the pairs whose lower-cased key is not in skip_params,
\* with the key lower-cased, sorted and encoded.
NormalizeQuery(query) ==
    LET pairs == ParseQsl(query)
        kept == SelectSeq(pairs, LAMBDA p : LowerText(p.key) \notin SkipParams)
        filtered_pairs == [k \in 1 .. Len(kept) |->
                              [key |-> LowerText(kept[k].key), value |-> kept[k].value]]
    IN  UrlEncode(SortPairs(filtered_pairs))

\* _normalize_url (lines 75-125) without its cache; the fragment is dropped.
NormalizeUrlText(text) ==
    LET parsed_url == UrlParse(text)
        scheme == LowerText(parsed_url.scheme)
    IN  UrlUnparse(scheme,
                   NormalizeNetloc(parsed_url.netloc, scheme),
                   NormalizePath(parsed_url.path),
                   NormalizeQuery(parsed_url.query),
                   <<>>)

(***************************************************************************)
(* The URL texts _normalize_url is applied to, and for each of them the    *)
(* texts that differ from it in one respect.                               *)
(***************************************************************************)
Origin == <<"https", "://", "example.com">>

Authorities ==
    {<<s, "://">> \o w \o <<h>> \o p :
        s \in {"https", "http", "HTTPS"},
        w \in {<<>>, <<"www.">>, <<"WWW.">>, <<"www.", "www.">>},
        h \in {"example.com", "Example.COM"},
        p \in {<<>>, <<":80">>, <<":443">>, <<":8080">>}}

\* Paths of up to MaxPathLen pieces; an escaped "?" only as the last piece.
PathTexts ==
    LET pieces == {"/", "a", "%61", "%2520", "%3F"}
    IN  {<<>>} \cup
        {p \in SeqsUpTo(pieces, MaxPathLen) :
            /\ p # <<>>
            /\ p[1] = "/"
            /\ \A k \in 1 .. (Len(p) - 1) : p[k] # "%3F"}

QueryFields == {<<k, "=", v>> : k \in {"a", "B"}, v \in {"x", "%78", "y"}}

QueryTexts ==
    LET fields == SeqsUpTo(QueryFields, MaxPairs) \ {<<>>}
    IN  {IF Len(f) = 1 THEN f[1] ELSE f[1] \o <<"&">> \o f[2] : f \in fields}

UrlTexts ==
    {a \o p : a \in Authorities, p \in {<<>>, <<"/">>}}
    \cup {Origin \o p \o f : p \in PathTexts, f \in {<<>>, <<"#", "top">>}}
    \cup {Origin \o p \o <<"?">> \o q : p \in {<<>>, <<"/", "a">>}, q \in QueryTexts}

\* Keys offered as tracking keys, in several letter cases.
TrackingKeys ==
    {"utm_source", "UTM_Source", "utm_medium", "utm_id",
     "ref", "Ref", "source", "fbclid", "gclid", "_ga", "_gl"}

\* The texts that differ from text in one respect, each with the respect.
Variants(text) ==
    LET u == UrlParse(text)
        scheme == text[1]
        with_path(p) == UrlUnparse(scheme, u.netloc, p, u.query, u.fragment)
        with_query(q) == UrlUnparse(scheme, u.netloc, u.path, q, u.fragment)
        fields == SplitPairs(u.query)
        \* no escaped "?" in the path: a query added to it keeps its keys
        plain == \A k \in 1 .. Len(u.path) : u.path[k] # "%3F"
    IN  {[edit |-> "none", text |-> text]}
        \cup {[edit |-> "trailing_slash", text |-> with_path(u.path \o <<"/">>)]}
        \cup {[edit |-> "repeat_slash",
               text |-> with_path(SubSeq(u.path, 1, k) \o SubSeq(u.path, k, Len(u.path)))] :
                 k \in {j \in 1 .. Len(u.path) : u.path[j] = "/"}}
        \cup {[edit |-> "percent_encode",
               text |-> with_path([u.path EXCEPT ![k] = "%61"])] :
                 k \in {j \in 1 .. Len(u.path) : u.path[j] = "a"}}
        \cup {[edit |-> "fragment",
               text |-> UrlUnparse(scheme, u.netloc, u.path, u.query,
                                   IF u.fragment = <<>> THEN <<"top">> ELSE <<>>)]}
        \cup {[edit |-> "www",
               text |-> UrlUnparse(scheme, <<"www.">> \o u.netloc, u.path, u.query, u.fragment)] :
                 k \in {j \in {1} : u.netloc[1] \notin {"www.", "WWW."}}}
        \cup {[edit |-> "tracking",
               text |-> with_query(IF u.query = <<>> THEN <<key, "=", "x">>
                                   ELSE <<key, "=", "x", "&">> \o u.query)] :
                 key \in {k \in TrackingKeys : plain}}
        \cup {[edit |-> "tracking",
               text |-> with_query(u.query \o <<"&", key, "=", "x">>)] :
                 key \in {k \in TrackingKeys : plain /\ u.query # <<>>}}
        \cup {[edit |-> "reorder",
               text |-> with_query(fields[2] \o <<"&">> \o fields[1])] :
                 k \in {j \in {1} : Len(fields) = 2}}

\* "http://example.com:80/" beside "https://example.com".
PortExample ==
    [base |-> Origin, edit |-> "http_port",
     variant |-> <<"http", "://", "example.com", ":80", "/">>]

RawUrls ==
    UNION {{[base |-> text, edit |-> v.edit, variant |-> v.text] : v \in Variants(text)} :
              text \in UrlTexts}
    \cup {PortExample}

NoFingerprints == [text \in {} |-> <<>>]

InitNormalize ==
    /\ mode = "normalize"
    /\ start_url = Seed
    /\ max_depth = 0
    /\ max_pages = 0
    /\ max_retries = RetriesBound
    /\ max_concurrent_requests = ConcurrentBound
    /\ persistence_workers = WorkersBound
    /\ parse_workers = ParseWorkersBound
    /\ site_canonicals = {}
    /\ vector_store = FALSE
    /\ pc = "done"
    /\ url_queue = <<>>
    /\ tasks = <<>>
    /\ ri = 0
    /\ page_links = <<>>
    /\ new_pages_count = 0
    /\ new_pages = <<>>
    /\ existing_documents = <<>>
    /\ page_queue = <<>>
    /\ unfinished = 0
    /\ workers = <<>>
    /\ result = NoResult
    /\ visited_fingerprints = {}
    /\ content_hashes = {}
    /\ robot_parsers = RobotsUnset
    /\ index_files = NoFiles
    /\ doc_files = {}
    /\ next_doc = 1
    /\ admissions = [f \in Fingerprints |-> 0]
    /\ page_gets = {}
    /\ store_failures = 0
    /\ stored_urls = {}
    /\ store_calls = <<>>
    /\ reported = {}
    /\ robots_gets = 0
    /\ raw_urls \in RawUrls
    /\ fingerprint_cache = NoFingerprints
    /\ NoService
    /\ NoSaved

\* A call of _normalize_url on a text that is not in the cache (lines
\* 71-72, 126): the text is one of the two URLs or a fingerprint returned
\* for one of them.
NormalizeCall ==
    \E text \in {raw_urls.base, raw_urls.variant}
                \cup {fingerprint_cache[t] : t \in DOMAIN fingerprint_cache
                                                    \cap {raw_urls.base, raw_urls.variant}} :
        /\ text \notin DOMAIN fingerprint_cache
        /\ fingerprint_cache' = (text :> NormalizeUrlText(text)) @@ fingerprint_cache
        /\ UNCHANGED <<config, sched, tasks, new_pages, existing_documents, pipeline, sets,
                       store, history, raw_urls, service, saved>>

NextNormalize == NormalizeCall

SpecNormalize == InitNormalize /\ [][NextNormalize]_vars

Cached(text) == text \in DOMAIN fingerprint_cache

\* C13: the fingerprint of a fingerprint is that fingerprint.
IdempotentNormalization ==
    \A text \in DOMAIN fingerprint_cache :
        Cached(fingerprint_cache[text]) =>
            fingerprint_cache[fingerprint_cache[text]] = fingerprint_cache[text]

EquivalenceExamples ==
    {Origin \o <<"/">>,
     <<"https", "://", "www.", "example.com">>,
     <<"http", "://", "example.com", ":80", "/">>,
     Origin \o <<"?", "utm_source", "=", "x">>}

\* C14: "https://example.com/", "https://www.example.com",
\* "http://example.com:80/" and "https://example.com?utm_source=x" have the
\* fingerprint of "https://example.com".
EquivalenceClasses ==
    /\ raw_urls.base = Origin
    /\ raw_urls.variant \in EquivalenceExamples
    /\ Cached(raw_urls.base)
    /\ Cached(raw_urls.variant)
    => fingerprint_cache[raw_urls.variant] = fingerprint_cache[raw_urls.base]

\* C15: two URLs that differ only in a trailing slash, in a repeated path
\* separator, in the percent-encoding of a path character or in the
\* fragment have the same fingerprint.
PathFormInvariance ==
    /\ raw_urls.edit \in {"trailing_slash", "repeat_slash", "percent_encode", "fragment"}
    /\ Cached(raw_urls.base)
    /\ Cached(raw_urls.variant)
    => fingerprint_cache[raw_urls.variant] = fingerprint_cache[raw_urls.base]

UtmKeys == {"utm_source", "utm_medium", "utm_campaign", "utm_term", "utm_content", "utm_id"}

IsTrackingKey(key) ==
    LowerText(key) \in UtmKeys \cup {"ref", "source", "fbclid", "gclid", "_ga", "_gl"}

KeptKeys(text) ==
    LET pairs == ParseQsl(UrlParse(text).query)
    IN  {LowerText(pairs[k].key) : k \in {j \in 1 .. Len(pairs) : ~IsTrackingKey(pairs[j].key)}}

\* C16: a URL with one more pair whose key starts with utm_ or is one of
\* ref, source, fbclid, gclid, _ga, _gl, in any letter case, has the
\* fingerprint of the URL without it; the keys of a fingerprint are the
\* other keys of the URL, lower-cased and in sorted order; and swapping two
\* pairs does not change the fingerprint.
TrackingKeysDropped ==
    /\ /\ raw_urls.edit \in {"tracking", "reorder"}
       /\ Cached(raw_urls.base)
       /\ Cached(raw_urls.variant)
       => fingerprint_cache[raw_urls.variant] = fingerprint_cache[raw_urls.base]
    /\ \A text \in DOMAIN fingerprint_cache \cap {raw_urls.base, raw_urls.variant} :
          LET pairs == ParseQsl(UrlParse(fingerprint_cache[text]).query)
          IN  /\ {pairs[k].key : k \in 1 .. Len(pairs)} = KeptKeys(text)
              /\ \A k \in 1 .. (Len(pairs) - 1) : PairBefore(pairs[k], pairs[k + 1])

(***************************************************************************)
(* The scheduler and its result.                                           *)
(***************************************************************************)
\* C21: without a vector store there is no persistence queue, no worker
\* and no existence check, and each accepted page is appended to new_pages
\* in the step that accepts it.
PassThrough ==
    /\ [](~vector_store =>
            /\ workers = <<>> /\ page_queue = <<>> /\ unfinished = 0
            /\ \A i \in DOMAIN tasks : tasks[i].pc # "exists"
            /\ reported = {} /\ existing_documents = <<>>
            /\ Len(new_pages) = new_pages_count)
    /\ [][~vector_store /\ new_pages_count' # new_pages_count =>
            new_pages' = Append(new_pages, tasks[ri].result[1])]_vars

\* A run without a store has returned two pages.
PassThroughWitness ==
    /\ mode = "dup_check" /\ ~vector_store
    /\ result.built
    /\ Len(result.new_pages) = 2

\* C23: in the returned result successful_new_pages is the length of
\* new_pages, retrieved_existing_documents the length of existing_documents
\* and total_visited the size of the visited set; the new pages are at most
\* the accepted pages, these at most max_pages, and new pages plus existing
\* documents at most total_visited.
ResultCounters ==
    result.built =>
        /\ result.successful_new_pages = Len(result.new_pages)
        /\ result.retrieved_existing_documents = Len(result.existing_documents)
        /\ result.total_visited = Cardinality(visited_fingerprints)
        /\ result.new_pages = new_pages
        /\ result.existing_documents = existing_documents
        /\ Len(result.new_pages) <= new_pages_count
        /\ new_pages_count <= max_pages
        /\ Len(result.new_pages) + Len(result.existing_documents) <= result.total_visited

\* A result with one stored page of two accepted ones, the storage of the
\* other having failed, and three visited fingerprints.
ResultCountersWitness ==
    /\ result.built
    /\ Len(result.new_pages) = 1
    /\ new_pages_count = 2
    /\ result.total_visited = 3

\* C28: while the tasks of a batch run the frontier and the count of
\* accepted pages do not change and nothing is put on the persistence
\* queue; results are handled only when every task of the batch has
\* finished; and the frontier changes only by the pushes of the results
\* loop and by the draw of the next batch.
FanOutFanIn ==
    /\ [](pc = "results" => \A i \in DOMAIN tasks : tasks[i].pc = "done")
    /\ [][pc = "gather" =>
            /\ url_queue' = url_queue
            /\ new_pages_count' = new_pages_count
            /\ Len(page_queue') <= Len(page_queue)
            /\ unfinished' <= unfinished]_vars
    /\ [][url_queue' # url_queue =>
            \/ pc = "results" /\ Len(url_queue') > Len(url_queue)
                 /\ SubSeq(url_queue', 1, Len(url_queue)) = url_queue
            \/ pc = "loop" /\ pc' = "gather" /\ Len(url_queue') < Len(url_queue)]_vars

\* A page of the batch is ready while another task of the batch still
\* waits for its answer.
FanOutFanInWitness ==
    /\ pc = "gather"
    /\ \E i, j \in DOMAIN tasks :
          /\ tasks[i].pc = "done" /\ tasks[i].result # <<>>
          /\ tasks[j].pc = "await"

Min3(a, b, c) == Min(a, Min(b, c))

\* C29: a batch of crawl_domain_with_duplicate_check holds exactly
\* min(max_concurrent_requests, max_pages - new_pages_count, size of the
\* frontier) entries, which are the last entries of the frontier, the last
\* pushed first, and the frontier keeps the others.
BatchComposition ==
    [][mode = "dup_check" /\ pc = "loop" /\ pc' = "gather" =>
        LET n == Min3(max_concurrent_requests, max_pages - new_pages_count, Len(url_queue))
        IN  /\ n >= 1
            /\ Len(tasks') = n
            /\ \A k \in 1 .. n :
                    /\ tasks'[k].url = url_queue[Len(url_queue) - k + 1].url
                    /\ tasks'[k].depth = url_queue[Len(url_queue) - k + 1].depth
                    /\ tasks'[k].pc = "start"
            /\ url_queue' = SubSeq(url_queue, 1, Len(url_queue) - n)]_vars

\* The budget is the least of the three: one task is drawn, an older
\* entry stays in the frontier.
BatchCompositionWitness ==
    /\ mode = "dup_check"
    /\ pc = "gather"
    /\ Len(tasks) = 1 /\ tasks[1].pc = "start"
    /\ max_pages - new_pages_count = 1
    /\ max_concurrent_requests > 1
    /\ url_queue # <<>>

InFlightPcs == {"exists", "fetch", "await", "backoff", "parse_wait", "parse_add"}

\* C30: a task past the admission check, a URL a page GET was issued for
\* and a URL reported by the store all have their fingerprint in the visited
\* set; the tasks past the admission check have different fingerprints; and
\* no entry is pushed onto the frontier whose fingerprint is visited.
VisitedBeforeFetch ==
    /\ [](/\ \A i \in DOMAIN tasks :
                tasks[i].pc \in InFlightPcs =>
                    NormalizeUrl(tasks[i].url) \in visited_fingerprints
          /\ \A g \in page_gets : NormalizeUrl(g.url) \in visited_fingerprints
          /\ \A u \in reported : NormalizeUrl(u) \in visited_fingerprints
          /\ \A i, j \in DOMAIN tasks :
                /\ i # j
                /\ tasks[i].pc \in InFlightPcs
                /\ tasks[j].pc \in InFlightPcs
                => NormalizeUrl(tasks[i].url) # NormalizeUrl(tasks[j].url))
    /\ [][\A k \in (Len(url_queue) + 1) .. Len(url_queue') :
            NormalizeUrl(url_queue'[k].url) \notin visited_fingerprints]_vars

\* A task waits for its answer while the results of an earlier batch
\* have pushed links: its fingerprint is visited and no frontier entry
\* pushed since has it.
VisitedBeforeFetchWitness ==
    /\ \E i \in DOMAIN tasks :
          /\ tasks[i].pc = "await"
          /\ tasks[i].depth >= 1
          /\ NormalizeUrl(tasks[i].url) \in visited_fingerprints
    /\ Cardinality(visited_fingerprints) >= 2

\* C22: every run returns its result; the loop is left exactly when the
\* frontier is empty or the count of accepted pages has reached max_pages;
\* and at the return the queue is empty and every worker has exited.
Termination ==
    /\ <>(pc = "done" /\ result.built)
    /\ [](pc = "done" =>
            /\ url_queue = <<>> \/ new_pages_count >= max_pages
            /\ page_queue = <<>> /\ unfinished = 0
            /\ \A w \in DOMAIN workers : workers[w].pc = "exit")
    /\ [][pc = "loop" /\ pc' # "loop" => (pc' = "gather" <=> LoopCondition)]_vars

\* A run has returned with pages left in the frontier, after a storage
\* failure and an entry that gave no page.
TerminationWitness ==
    /\ pc = "done" /\ result.built
    /\ url_queue # <<>>
    /\ store_failures >= 1

(***************************************************************************)
(* The parse pool and the content-hash set.                                *)
(***************************************************************************)
\* The page a parse has reported not-duplicate: held by the thread between
\* the membership test and the add, or already returned by the task.
NotDuplicate(t) == IF t.pc = "parse_add" THEN t.data ELSE t.result

\* C27: of two parses of one batch whose pages have the same content hash
\* (content not empty), at most one reports not-duplicate: the membership
\* test and the add of _is_duplicate_content act as one step.
AtomicContentCheck ==
    \A i, j \in DOMAIN tasks :
        /\ i # j
        /\ NotDuplicate(tasks[i]) # <<>>
        /\ NotDuplicate(tasks[j]) # <<>>
        /\ NotDuplicate(tasks[i])[1].content # ""
        => ComputeContentHash(NotDuplicate(tasks[i])[1].content)
               # ComputeContentHash(NotDuplicate(tasks[j])[1].content)

(***************************************************************************)
(* A batch of several entries, late in a run.  The seed page linked to two *)
(* pages, PageA and PageB; both were fetched in the second batch and       *)
(* accepted, and the results loop has pushed their links.  The run is at   *)
(* the top of the loop with the third batch to draw.                       *)
(***************************************************************************)
PageA == [scheme |-> "https", host |-> SeedHost, path |-> NPaths, slash |-> FALSE]
PageB == [scheme |-> "https", host |-> SeedHost, path |-> NPaths + 1, slash |-> FALSE]

InitBatch ==
    /\ mode = "dup_check"
    /\ start_url = Seed
    /\ max_depth = MaxDepthBound
    /\ vector_store = FALSE
    /\ max_pages \in 4 .. (3 + ConcurrentBound)
    /\ max_retries = RetriesBound
    /\ max_concurrent_requests = ConcurrentBound
    /\ persistence_workers = WorkersBound
    /\ parse_workers \in 1 .. ParseWorkersBound
    /\ site_canonicals = {}
    /\ pc = "loop"
    /\ visited_fingerprints = {NormalizeUrl(Seed), NormalizeUrl(PageA), NormalizeUrl(PageB)}
    \* the second batch was <<PageB, PageA>> (pop takes the last pushed
    \* first), so the links of PageB were pushed before those of PageA
    /\ \E hrefsA \in Hrefs, hrefsB \in Hrefs :
          url_queue = NewLinks(ExtractLinks(hrefsB, PageB, {}), 1)
                          \o NewLinks(ExtractLinks(hrefsA, PageA, {}), 1)
    /\ tasks = <<>>
    /\ ri = 0
    /\ page_links = <<>>
    /\ new_pages_count = 3
    /\ new_pages = <<PageData(Seed, "intro"), PageData(PageB, ""), PageData(PageA, "")>>
    /\ existing_documents = <<>>
    /\ page_queue = <<>>
    /\ unfinished = 0
    /\ workers = <<>>
    /\ result = NoResult
    /\ content_hashes = {ComputeContentHash("intro")}
    /\ robot_parsers \in {RobotsNone} \cup RobotsFiles
    /\ index_files = NoFiles
    /\ doc_files = {}
    /\ next_doc = 1
    /\ admissions = [f \in Fingerprints |-> IF f = NormalizeUrl(Seed) THEN 1 ELSE 0]
    /\ page_gets = {[url |-> Seed, depth |-> 0], [url |-> PageA, depth |-> 1],
                    [url |-> PageB, depth |-> 1]}
    /\ store_failures = 0
    /\ stored_urls = {}
    /\ store_calls = <<>>
    /\ reported = {}
    /\ robots_gets = 1
    /\ raw_urls = <<>>
    /\ fingerprint_cache = <<>>
    /\ NoService
    /\ NoSaved

\* The run goes on without a vector store: no existence check, no
\* persistence worker, and the robots cache is filled.
NextBatch ==
    \/ DrawBatch
    \/ CollectResults
    \/ ReadPageLinks
    \/ ProcessResult
    \/ WakeScheduler
    \/ EndLoop
    \/ Return
    \/ \E i \in DOMAIN tasks :
          \/ TaskStart(i)
          \/ TaskGet(i)
          \/ TaskResponse(i)
          \/ TaskWake(i)
          \/ TaskParseStart(i)
          \/ TaskParseAdd(i)

SpecBatch == InitBatch /\ [][NextBatch]_vars

\* C26: of the entries of a batch whose URLs have one fingerprint at most
\* one is admitted, and in a batch of several tasks the task that passes the
\* visited test inserts its fingerprint in the same step, with no step of
\* another task between the test and the insertion.
NoDoubleWin ==
    /\ [](\A f \in Fingerprints : admissions[f] <= 1)
    /\ [][\A i \in DOMAIN tasks :
            /\ Len(tasks) >= 2
            /\ i \in DOMAIN tasks'
            /\ tasks[i].pc = "start"
            /\ tasks'[i].pc # "start"
            => \/ tasks'[i].pc = "done"
               \/ /\ NormalizeUrl(tasks[i].url) \notin visited_fingerprints
                  /\ NormalizeUrl(tasks[i].url) \in visited_fingerprints']_vars

\* Two entries of one batch have the same fingerprint: one was admitted and
\* waits for its page, the other was rejected by the visited test.
NoDoubleWinWitness ==
    \E i, j \in DOMAIN tasks :
        /\ i # j
        /\ tasks[i].url # tasks[j].url
        /\ NormalizeUrl(tasks[i].url) = NormalizeUrl(tasks[j].url)
        /\ tasks[i].pc = "await"
        /\ tasks[j].pc = "done" /\ tasks[j].result = <<>>
        /\ admissions[NormalizeUrl(tasks[i].url)] = 1

(***************************************************************************)
(* The /crawl endpoint of backend/main.py: every request awaits            *)
(* crawl_domain_with_duplicate_check on the one module-level crawler, so   *)
(* the invocations share its visited set, its content-hash set and its     *)
(* session attribute, and a later request can start while an earlier one   *)
(* is suspended.  An invocation is reduced to its steps on that shared     *)
(* state.                                                                  *)
(***************************************************************************)
MaxRuns == 2

RunIds == 1 .. MaxRuns

\* What no crawl in progress leaves in the variables of a single crawl.
NoCrawl ==
    /\ start_url = Seed
    /\ max_depth = 0
    /\ max_pages = 0
    /\ max_retries = RetriesBound
    /\ max_concurrent_requests = ConcurrentBound
    /\ persistence_workers = WorkersBound
    /\ parse_workers = ParseWorkersBound
    /\ site_canonicals = {}
    /\ vector_store = FALSE
    /\ pc = "done"
    /\ url_queue = <<>>
    /\ tasks = <<>>
    /\ ri = 0
    /\ page_links = <<>>
    /\ new_pages_count = 0
    /\ new_pages = <<>>
    /\ existing_documents = <<>>
    /\ page_queue = <<>>
    /\ unfinished = 0
    /\ workers = <<>>
    /\ result = NoResult
    /\ robot_parsers = RobotsUnset
    /\ index_files = NoFiles
    /\ doc_files = {}
    /\ next_doc = 1
    /\ admissions = [f \in Fingerprints |-> 0]
    /\ page_gets = {}
    /\ store_failures = 0
    /\ stored_urls = {}
    /\ store_calls = <<>>
    /\ reported = {}
    /\ robots_gets = 0
    /\ raw_urls = <<>>
    /\ fingerprint_cache = <<>>

\* An invocation: where it is, the session its __aenter__ created, the
\* fingerprints and content hashes it has inserted, and the sessions its
\* page GETs went through.
NewRun == [pc |-> "idle", session |-> 0, added |-> {}, hashes |-> {}, used |-> {}]

SiteFingerprints == {NormalizeUrl(u) : u \in InUrls}

SiteHashes == {ComputeContentHash(c) : c \in Contents \ {""}}

\* The crawler object after backend/main.py line 29 and crawler.py lines
\* 34-47, before the first request.
InitOverlap ==
    /\ mode = "overlap"
    /\ NoCrawl
    /\ visited_fingerprints = {}
    /\ content_hashes = {}
    /\ runs = [r \in RunIds |-> NewRun]
    /\ session = 0
    /\ closed = {}
    /\ NoSaved

\* Lines 492-498 with __aenter__ (lines 50-60): a new session replaces
\* self.session, and the sets of the crawler are cleared.  Nothing is
\* awaited in between.
RunStart(r) ==
    /\ runs[r].pc = "idle"
    /\ session' = r
    /\ visited_fingerprints' = {}
    /\ content_hashes' = {}
    /\ runs' = [runs EXCEPT ![r] = [@ EXCEPT !.pc = "running", !.session = r]]
    /\ UNCHANGED <<config, normalizer, saved, sched, tasks, new_pages, existing_documents,
                   pipeline, robot_parsers, store, history, closed>>

\* Lines 213 and 527-528: an entry passes the visited test of the shared
\* set and its fingerprint is added.
RunAdmit(r) ==
    /\ runs[r].pc = "running"
    /\ \E f \in SiteFingerprints \ visited_fingerprints :
          /\ visited_fingerprints' = visited_fingerprints \cup {f}
          /\ runs' = [runs EXCEPT ![r].added = @ \cup {f}]
    /\ UNCHANGED <<config, normalizer, saved, sched, tasks, new_pages, existing_documents,
                   pipeline, content_hashes, robot_parsers, store, history, session, closed>>

\* Line 349: a page GET goes through whatever self.session is now.
RunGet(r) ==
    /\ runs[r].pc = "running"
    /\ runs[r].added # {}
    /\ runs' = [runs EXCEPT ![r].used = @ \cup {session}]
    /\ UNCHANGED <<config, normalizer, saved, sched, tasks, new_pages, existing_documents,
                   pipeline, sets, store, history, session, closed>>

\* Lines 244-250: a parse finds its content hash absent from the shared
\* set and adds it.
RunParse(r) ==
    /\ runs[r].pc = "running"
    /\ runs[r].used # {}
    /\ \E h \in SiteHashes \ content_hashes :
          /\ content_hashes' = content_hashes \cup {h}
          /\ runs' = [runs EXCEPT ![r].hashes = @ \cup {h}]
    /\ UNCHANGED <<config, normalizer, saved, sched, tasks, new_pages, existing_documents,
                   pipeline, visited_fingerprints, robot_parsers, store, history,
                   session, closed>>

\* __aexit__ (lines 62-66) at the end of the async with block: it closes
\* whatever self.session is now; the parse executor is replaced and shut
\* down in the same way as the session.
RunEnd(r) ==
    /\ runs[r].pc = "running"
    /\ closed' = closed \cup {session}
    /\ runs' = [runs EXCEPT ![r].pc = "returned"]
    /\ UNCHANGED <<config, normalizer, saved, sched, tasks, new_pages, existing_documents,
                   pipeline, sets, store, history, session>>

NextOverlap ==
    \E r \in RunIds :
        \/ RunStart(r)
        \/ RunAdmit(r)
        \/ RunGet(r)
        \/ RunParse(r)
        \/ RunEnd(r)

SpecOverlap == InitOverlap /\ [][NextOverlap]_vars

\* C24: while a run is in progress the visited set and the content-hash set
\* hold what this run has inserted since its start, no more and no less, the
\* session the run opened is not closed, and its page GETs go through that
\* session.
RunIsolation ==
    \A r \in DOMAIN runs :
        runs[r].pc = "running" =>
            /\ visited_fingerprints = runs[r].added
            /\ content_hashes = runs[r].hashes
            /\ runs[r].session \notin closed
            /\ runs[r].used \subseteq {runs[r].session}

(***************************************************************************)
(* The Streamlit app (app.py): crawl_website saves the data of a crawl in  *)
(* crawled_data_<hash>.json, check_existing_data looks a URL up in those   *)
(* files.  A URL text is a sequence of pieces: the origin, then path       *)
(* segments and single "/" characters.                                     *)
(***************************************************************************)
MaxSaves == 2
MaxRestarts == 1

Origins == {"https://example.com", "https://different.com"}

Tails == {<<>>, <<"/">>, <<"/", "/">>, <<"/path">>, <<"/path", "/">>}

SiteTexts == {<<o>> \o t : o \in Origins, t \in Tails}

\* A strip of one trailing "/" only.
RStripOne(text) ==
    IF text # <<>> /\ text[Len(text)] = "/"
    THEN SubSeq(text, 1, Len(text) - 1)
    ELSE text

\* str.rstrip('/') (app.py lines 667, 675, 1304): every trailing "/" goes.
RECURSIVE RStrip(_)
RStrip(text) ==
    IF text # <<>> /\ text[Len(text)] = "/"
    THEN RStrip(SubSeq(text, 1, Len(text) - 1))
    ELSE text

\* Lines 1304-1306: hash() of a str is salted per process, so the name
\* depends on the process that saves as well as on the stripped URL.
DataFileName(seed, url) == <<"crawled_data_", seed, RStrip(url), ".json">>

\* save_to_json (web_crawler.py lines 298-312): base_url is the URL the
\* crawler was given, unstripped; stamp stands for the rest of the data.
CrawlData(url, n) == [base_url |-> url, stamp |-> n]

\* The app has started and no crawl has been saved.
InitExisting ==
    /\ mode = "existing"
    /\ NoCrawl
    /\ visited_fingerprints = {}
    /\ content_hashes = {}
    /\ NoService
    /\ data_files = {}
    /\ hash_seed = 0
    /\ saves = 0
    /\ lookup = NoLookup

\* crawl_website(url), lines 1303-1309: the file of that name is written or
\* overwritten.
SaveCrawl(url) ==
    /\ saves < MaxSaves
    /\ saves' = saves + 1
    /\ LET name == DataFileName(hash_seed, url)
       IN  data_files' = {f \in data_files : f.name # name}
                            \cup {[name |-> name, data |-> CrawlData(url, saves + 1)]}
    /\ UNCHANGED <<config, normalizer, service, sched, tasks, new_pages, existing_documents,
                   pipeline, sets, store, history, hash_seed, lookup>>

\* The app process is started again: the files stay, the salt changes.
Restart ==
    /\ hash_seed < MaxRestarts
    /\ hash_seed' = hash_seed + 1
    /\ lookup' = NoLookup
    /\ UNCHANGED <<config, normalizer, service, sched, tasks, new_pages, existing_documents,
                   pipeline, sets, store, history, data_files, saves>>

\* check_existing_data(url), lines 663-687: the data of the first file, in
\* the order of os.listdir, whose stripped base_url is the stripped URL.
CheckExisting(url) ==
    /\ LET matching == {f \in data_files : RStrip(f.data.base_url) = RStrip(url)}
       IN  IF matching = {}
           THEN lookup' = [asked |-> TRUE, url |-> url, data |-> <<>>]
           ELSE \E f \in matching :
                   lookup' = [asked |-> TRUE, url |-> url, data |-> <<f.data>>]
    /\ UNCHANGED <<config, normalizer, service, sched, tasks, new_pages, existing_documents,
                   pipeline, sets, store, history, data_files, hash_seed, saves>>

NextExisting ==
    \/ \E url \in SiteTexts : SaveCrawl(url)
    \/ \E url \in SiteTexts : CheckExisting(url)
    \/ Restart

SpecExisting == InitExisting /\ [][NextExisting]_vars

\* A text without its trailing "/" pieces, said without rstrip: the prefix
\* up to the last piece that is not "/".
Stem(text) ==
    LET last == CHOOSE k \in 0 .. Len(text) :
                    /\ k = 0 \/ text[k] # "/"
                    /\ \A j \in (k + 1) .. Len(text) : text[j] = "/"
    IN  SubSeq(text, 1, last)

SavedFor(url) == {f.data : f \in {g \in data_files : Stem(g.data.base_url) = Stem(url)}}

\* C25: a call check_existing_data(v) returns data saved for a base URL
\* that equals v once the trailing slashes of both are dropped, whenever
\* such data is on disk, and returns no data when every saved base URL
\* differs from v in its path or its domain.
ExistingDataLookup ==
    [][lookup' # lookup /\ lookup'.asked =>
          IF SavedFor(lookup'.url) = {}
          THEN lookup'.data = <<>>
          ELSE lookup'.data # <<>> /\ lookup'.data[1] \in SavedFor(lookup'.url)]_vars

\* Data was saved for a URL, and a lookup of the same URL with a different
\* number of trailing slashes has returned it.
ExistingDataLookupWitness ==
    /\ lookup.asked
    /\ lookup.data # <<>>
    /\ lookup.data[1].base_url # lookup.url
    /\ Len(lookup.url) >= Len(lookup.data[1].base_url) + 2

(***************************************************************************)
(* Robots rules and what a run does with a disallowed URL.                 *)
(***************************************************************************)
Disallowed(u) == robot_parsers.state = "parser" /\ u.path \in robot_parsers.disallow

PagesHeld ==
    {new_pages[k] : k \in DOMAIN new_pages}
        \cup UNION {{page_queue[k][j] : j \in DOMAIN page_queue[k]} : k \in DOMAIN page_queue}
        \cup UNION {{workers[w].page[j] : j \in DOMAIN workers[w].page} : w \in DOMAIN workers}
        \cup UNION {{tasks[i].result[j] : j \in DOMAIN tasks[i].result} : i \in DOMAIN tasks}

PageRequests == Cardinality({i \in DOMAIN tasks : tasks[i].pc = "await"})

StoresRunning == Cardinality({w \in DOMAIN workers : workers[w].pc = "store"})

\* C32: at most max_concurrent_requests page requests are in flight, at
\* most parse_workers parses run, and at most persistence_workers calls of
\* store_documents are in progress.
ConcurrencyBounds ==
    /\ PageRequests <= max_concurrent_requests
    /\ ParsesRunning <= parse_workers
    /\ StoresRunning <= persistence_workers

\* The parse pool is full: one parse runs on its only thread and the page
\* of another task of the batch waits for it.
ConcurrencyBoundsWitness ==
    /\ ParsesRunning = parse_workers
    /\ \E i \in DOMAIN tasks : tasks[i].pc = "parse_wait"

\* C33: a task whose page waits for a parse thread or is being parsed holds
\* no permit of the request semaphore, and neither does a task that sleeps
\* in back-off.
IndependentBudgets ==
    \A i \in DOMAIN tasks :
        tasks[i].pc \in {"parse_wait", "parse_add", "backoff"} => i \notin PermitHolders

(***************************************************************************)
(* A site whose pages declare canonical links.  The run has no vector      *)
(* store, and as many parse threads as a batch has tasks.                  *)
(***************************************************************************)
InitCanonical ==
    /\ mode = "dup_check"
    /\ start_url = Seed
    /\ max_depth = 1
    /\ vector_store = FALSE
    /\ max_pages = MaxPagesBound
    /\ max_retries = RetriesBound
    /\ max_concurrent_requests = ConcurrentBound
    /\ persistence_workers = WorkersBound
    /\ parse_workers = ConcurrentBound
    /\ site_canonicals = {u \in InUrls : u.path <= 1 /\ ~u.slash}
    /\ pc = "loop"
    /\ url_queue = <<[url |-> start_url, depth |-> 0]>>
    /\ tasks = <<>>
    /\ ri = 0
    /\ page_links = <<>>
    /\ new_pages_count = 0
    /\ new_pages = <<>>
    /\ existing_documents = <<>>
    /\ page_queue = <<>>
    /\ unfinished = 0
    /\ workers = <<>>
    /\ result = NoResult
    /\ visited_fingerprints = {}
    /\ content_hashes = {}
    /\ robot_parsers = RobotsUnset
    /\ index_files = NoFiles
    /\ doc_files = {}
    /\ next_doc = 1
    /\ admissions = [f \in Fingerprints |-> 0]
    /\ page_gets = {}
    /\ store_failures = 0
    /\ stored_urls = {}
    /\ store_calls = <<>>
    /\ reported = {}
    /\ robots_gets = 0
    /\ raw_urls = <<>>
    /\ fingerprint_cache = <<>>
    /\ NoService
    /\ NoSaved

NextCanonical ==
    \/ DrawBatch
    \/ CollectResults
    \/ ReadPageLinks
    \/ ProcessResult
    \/ WakeScheduler
    \/ EndLoop
    \/ Return
    \/ \E i \in DOMAIN tasks :
          \/ TaskStart(i)
          \/ TaskRobots(i)
          \/ TaskGet(i)
          \/ TaskResponse(i)
          \/ TaskWake(i)
          \/ TaskParseAdd(i)

SpecCanonical == InitCanonical /\ [][NextCanonical]_vars

\* C34: no two entries of new_pages have url values of the same
\* fingerprint, whatever canonical links the fetched pages declare.
CanonicalIdentity ==
    \A i, j \in DOMAIN new_pages :
        i # j => NormalizeUrl(new_pages[i].url) # NormalizeUrl(new_pages[j].url)

(***************************************************************************)
(* Pages without content.                                                  *)
(***************************************************************************)
EmptyPage(res) == res # <<>> /\ res[1].content = ""

\* C35: the hash of empty content is never recorded; a parse that returns a
\* page of empty content leaves the content hashes alone; and when the
\* results loop takes such a page it counts it as a new page, hands it on
\* (to new_pages or to the persistence queue) and pushes its unvisited
\* links when the page is above the depth limit.
EmptyContentAccepted ==
    /\ [](ComputeContentHash("") \notin content_hashes)
    /\ [][\A i \in DOMAIN tasks \cap DOMAIN tasks' :
            tasks[i].pc # "done" /\ tasks'[i].pc = "done" /\ EmptyPage(tasks'[i].result)
            => content_hashes' = content_hashes]_vars
    /\ [][pc = "results" /\ EmptyPage(tasks[ri].result) /\ ri' # ri =>
            /\ new_pages_count' = new_pages_count + 1
            /\ \/ new_pages' = Append(new_pages, tasks[ri].result[1])
               \/ page_queue' = Append(page_queue, tasks[ri].result)
            /\ url_queue' = IF tasks[ri].depth < max_depth
                            THEN url_queue \o NewLinks(page_links[1], tasks[ri].depth)
                            ELSE url_queue]_vars

\* Two pages of empty content were accepted in one run, and the links of an
\* empty page are in the frontier.
EmptyContentAcceptedWitness ==
    /\ \E i, j \in DOMAIN new_pages :
          i # j /\ new_pages[i].content = "" /\ new_pages[j].content = ""
    /\ new_pages_count = 3
    /\ content_hashes # {}

(***************************************************************************)
(* URLs the store already knows.                                           *)
(***************************************************************************)
\* C36: a URL reported as existing is never the argument of a page GET and
\* gives no page; the step that classifies it leaves the count of new pages
\* and the frontier as they are, and the results loop pushes nothing for
\* it; a run whose seed is known issues no page GET, keeps an empty
\* frontier and returns with new_pages empty.
KnownUrlsAreDeadEnds ==
    /\ [](/\ \A u \in reported :
                /\ \A g \in page_gets : g.url # u
                /\ \A p \in PagesHeld : p.url # u
                /\ \A i \in DOMAIN tasks :
                      tasks[i].url = u => tasks[i].pc = "done" /\ tasks[i].result = <<>>
          /\ start_url \in reported =>
                /\ page_gets = {}
                /\ url_queue = <<>>
                /\ new_pages_count = 0
                /\ new_pages = <<>>
                /\ result.built => result.new_pages = <<>>)
    /\ [][reported' # reported =>
            new_pages_count' = new_pages_count /\ url_queue' = url_queue]_vars
    /\ [][pc = "results" /\ tasks[ri].url \in reported /\ ri' # ri =>
            new_pages_count' = new_pages_count /\ url_queue' = url_queue]_vars

\* The seed was fetched and counted; a page it links to was reported as
\* existing and its stored document retrieved; the run has returned.
KnownUrlsAreDeadEndsWitness ==
    /\ reported = {KnownPage}
    /\ Len(existing_documents) = 1
    /\ new_pages_count = 1
    /\ result.built

(***************************************************************************)
(* The crawl command of backend/cli.py: the crawler is created with the    *)
(* vector store (lines 40-46), the command awaits the crawl and then       *)
(* stores the pages of the result.                                         *)
(***************************************************************************)
InitCli == Init /\ mode = "dup_check" /\ vector_store

\* store_documents(pages, source_url) on a list: the loop of lines 171-205
\* over the pages, blank ones skipped, then the index (line 224).
RECURSIVE StoreAll(_, _, _)
StoreAll(st, pages, source_url) ==
    IF pages = <<>> THEN st
    ELSE LET page == Head(pages)
         IN  StoreAll([docs |-> SaveDocumentLocally(st.docs, page, source_url, st.n),
                       index |-> UpdateDocumentIndex(st.index, page, source_url, st.n),
                       n |-> IF page.content = "" THEN st.n ELSE st.n + 1],
                      Tail(pages), source_url)

RECURSIVE PassedAll(_, _)
PassedAll(calls, pages) ==
    IF pages = <<>> THEN calls
    ELSE PassedAll(Passed(calls, Head(pages).url), Tail(pages))

\* cli.py lines 91-96 (and 585-589): after the crawl has returned, the
\* new pages of its result are passed to store_documents in one call.
CliStore ==
    /\ pc = "done"
    /\ result.built
    /\ pc' = "stored"
    /\ IF result.new_pages = <<>>
       THEN UNCHANGED <<store, store_calls, store_failures, stored_urls>>
       ELSE \E outcome \in {"stored", "raised_early", "raised_late"} :
               LET st == StoreAll([docs |-> doc_files, index |-> index_files, n |-> next_doc],
                                  result.new_pages, start_url)
               IN  /\ doc_files' = IF outcome = "raised_early" THEN doc_files ELSE st.docs
                   /\ next_doc' = IF outcome = "raised_early" THEN next_doc ELSE st.n
                   /\ index_files' = IF outcome = "stored" THEN st.index ELSE index_files
                   /\ store_calls' = PassedAll(store_calls, result.new_pages)
                   /\ store_failures' = IF outcome = "stored" THEN store_failures
                                        ELSE store_failures + 1
                   /\ stored_urls' = IF outcome = "stored"
                                     THEN stored_urls \cup
                                            {result.new_pages[k].url :
                                                k \in {j \in DOMAIN result.new_pages :
                                                          result.new_pages[j].content # ""}}
                                     ELSE stored_urls
    /\ UNCHANGED <<config, normalizer, service, saved, url_queue, ri, page_links, new_pages_count,
                   result, tasks, new_pages, existing_documents, pipeline, sets,
                   admissions, page_gets, reported, robots_gets>>

NextCli ==
    \/ SchedulerStep
    \/ WorkerStep
    \/ \E i \in DOMAIN tasks :
          \/ TaskStart(i)
          \/ TaskRobots(i)
          \/ TaskExists(i)
          \/ TaskGet(i)
          \/ TaskResponse(i)
          \/ TaskWake(i)
          \/ TaskParseAdd(i)
    \/ CliStore

SpecCli == InitCli /\ [][NextCli]_vars

\* C37: when the crawl command has finished, every page of new_pages has
\* been passed to store_documents exactly once, the calls of the
\* persistence workers and of the command counted together.
ExactlyOnceStorage ==
    pc = "stored" =>
        \A k \in DOMAIN result.new_pages :
            Calls(store_calls, result.new_pages[k].url) = 1

(***************************************************************************)
(* Ports in the fingerprint.                                               *)
(***************************************************************************)
DefaultPort(scheme) ==
    IF scheme = "http" THEN ":80" ELSE IF scheme = "https" THEN ":443" ELSE ""

\* The netloc of a URL text in lower case, without one leading "www." and
\* without the port when it is the default port of the scheme.
ExpectedNetloc(text) ==
    LET parsed == UrlParse(text)
        low == [k \in 1 .. Len(parsed.netloc) |-> LowerText(parsed.netloc[k])]
        bare == IF low # <<>> /\ low[1] = "www." THEN Tail(low) ELSE low
    IN  SelectSeq(bare, LAMBDA piece : piece # DefaultPort(LowerText(parsed.scheme)))

\* C38: the host and port of a fingerprint are those of the URL, lower-cased
\* and without the www. prefix, the port being dropped only when it is 80
\* under http or 443 under https.
OnlyDefaultPortStripped ==
    \A text \in DOMAIN fingerprint_cache :
        UrlParse(fingerprint_cache[text]).netloc = ExpectedNetloc(text)

(***************************************************************************)
(* Reading stored documents back.                                          *)
(***************************************************************************)
\* get_document_by_id: the file <documents>/<doc_id>.json, as a sequence of
\* at most one document; FileNotFoundError is the empty sequence.
GetDocumentById(docs, doc_id) ==
    LET found == {f \in docs : f.path = ReadDocPath(doc_id)}
    IN  IF found = {} THEN <<>> ELSE <<(CHOOSE f \in found : TRUE).doc>>

\* The files store_documents has written in this run.
StoredByRun == {f \in doc_files : f.path = SavedDocPath(GenerateSourceId(start_url), f.doc.id)}

\* C39: get_document_by_id(d) returns the data of every document that
\* store_documents has stored under id d, and
\* get_existing_documents_for_urls returns a document for every URL that
\* check_urls_exist reports as existing.
StoredDocumentsReadBack ==
    /\ \A f \in StoredByRun : GetDocumentById(doc_files, f.doc.id) = <<f.doc>>
    /\ \A u \in AllUrls :
          CheckUrlsExist(index_files, u) # <<>>
              => GetExistingDocuments(index_files, doc_files, u) # <<>>

====
